---- MODULE Spec2Model ----
(***************************************************************************)
(* A model of the agents of the chatbot template:                          *)
(*   - BaseAgent.chat with its tool-call loop and conversation history,    *)
(*     clear_history and the reconfiguration of the agent's tools          *)
(*     (src/src/agents/base_agent.py);                                     *)
(*   - AgentManager, the directory of agents, with its loading, lookup,    *)
(*     delegation and reload (src/src/agents/agent_manager.py).            *)
(*                                                                         *)
(* Texts (Python str values) are sequences of chunks: a chunk is either a  *)
(* whitespace character or a run of text that starts and ends with a       *)
(* non-whitespace character.  The language model and the tool functions    *)
(* are external: each chat call draws their outcomes from small sets.      *)
(*                                                                         *)
(* Spec is one agent that chats; SpecAgentTools is one agent whose tools   *)
(* are reconfigured; SpecSharedName is one agent with two tools of one     *)
(* name; SpecDirectory is an AgentManager with its agents.                 *)
(***************************************************************************)
EXTENDS Integers, Sequences, FiniteSets, TLC

VARIABLES
  system_prompt,          \* BaseAgent.system_prompt
  max_history,            \* BaseAgent.max_history
  use_rag,                \* BaseAgent.use_rag
  rag_retriever,          \* BaseAgent.rag_retriever (None when there is none)
  use_tools,              \* BaseAgent.use_tools
  tools,                  \* BaseAgent.tools: list of tool descriptors
  llm_with_tools,         \* BaseAgent.llm_with_tools: the tool catalog bound
                          \* to the model (empty for the plain self.llm)
  conversation_history,   \* BaseAgent.conversation_history: list of Message
  manager,                \* whether the AgentManager has been constructed
  agents_config,          \* config.get_all_agents(): the configured names
  agents,                 \* AgentManager.agents: dict name -> BaseAgent
  current_agent_name,     \* AgentManager.current_agent_name
  heap,                   \* the BaseAgent instances constructed so far
  held,                   \* the reference a caller got from get_agent
  llm_config,             \* config.get_llm_config(): the global llm section
  llm_override,           \* each configured agent's llm_override.provider
  test_set,               \* the test cases handed to evaluate_test_set
  in_flight,              \* the chat call in progress on each agent, when
                          \* agents are called concurrently: its position
                          \* and its locals
  enabled,                \* RAGManager.enabled
  vector_db,              \* rag_config['vector_db']
  vectorstore,            \* RAGManager.vectorstore: the store object
  stored,                 \* what the backend keeps outside the process: the
                          \* chroma collection, the faiss files, the
                          \* pinecone index
  last                    \* the call that has just returned: what it did and
                          \* what it hands to its caller (Idle between calls)

\* the configuration of one agent, its tool set, and the agent directory
\* (configVars is what no operation of an agent or of the directory
\* changes: the agent's configuration and the services beside the agents)
agentConfigVars == <<system_prompt, max_history, use_rag, rag_retriever>>
llmVars == <<llm_config, llm_override>>
ragVars == <<enabled, vector_db, vectorstore, stored>>
serviceVars == <<llmVars, test_set, ragVars, in_flight>>
configVars == <<agentConfigVars, serviceVars>>
toolVars == <<use_tools, tools, llm_with_tools>>
directoryVars ==
  <<manager, agents_config, agents, current_agent_name, heap, held>>

vars == <<configVars, toolVars, conversation_history, directoryVars, last>>

----------------------------------------------------------------------------
(* Bounds of the model *)

\* chat is not called once the history holds this many recorded turns
MaxTurns == 3
\* the largest max_history an agent is configured with
MaxHistory == 1
\* the largest number of test cases in a test set
MaxCases == 3

----------------------------------------------------------------------------
(* Texts *)

Whitespace == {" ", "\t", "\n"}

Empty == <<>>
Blank == <<" ">>
Hello == <<"Hello">>
HiThere == <<"Hi there.">>
HowAreYou == <<"How are you?">>
Prompt == <<"You are a helpful AI assistant.">>

\* A response content that is not a str (a list of content blocks).
NonText == <<"[content blocks]">>

RECURSIVE LStrip(_)
LStrip(t) == IF t # <<>> /\ Head(t) \in Whitespace THEN LStrip(Tail(t)) ELSE t

RECURSIVE RStrip(_)
RStrip(t) ==
  IF t # <<>> /\ t[Len(t)] \in Whitespace
    THEN RStrip(SubSeq(t, 1, Len(t) - 1))
    ELSE t

\* str.strip()
Strip(t) == RStrip(LStrip(t))

\* The fixed text substituted for an empty response.
FallbackText ==
  <<"I apologize, but I couldn't generate a response. Please try rephrasing your question.">>

\* The text returned when the turn raised internally.
ApologyText(e) == <<"I apologize, but I encountered an error: ", e>>

NotFoundText(tool_name) == <<"Tool ", tool_name, " not found">>

ToolErrorText(tool_name, e) == <<"Error executing ", tool_name, ": ", e>>

\* An entry of tool_calls_made: f"{tool_name}: {tool_result}"
MadeEntry(tool_name, tool_result) == <<tool_name, ": ">> \o tool_result

----------------------------------------------------------------------------
(* Messages *)

NoMetadata == [keys |-> {}, used_tools |-> FALSE, tools_executed |-> <<>>]

TurnMetadata(tool_calls_made) ==
  [keys |-> {"used_tools", "tools_executed"},
   used_tools |-> Len(tool_calls_made) > 0,
   tools_executed |-> tool_calls_made]

\* The Message dataclass (the timestamp is left out).
Message(role, content, metadata) ==
  [role |-> role, content |-> content, metadata |-> metadata]

\* langchain messages, all of one shape
SystemMessage(content) ==
  [type |-> "system", content |-> content, tool_calls |-> <<>>, tool_call_id |-> ""]
HumanMessage(content) ==
  [type |-> "human", content |-> content, tool_calls |-> <<>>, tool_call_id |-> ""]
AIMessage(content, tool_calls) ==
  [type |-> "ai", content |-> content, tool_calls |-> tool_calls, tool_call_id |-> ""]
ToolMessage(content, tool_call_id) ==
  [type |-> "tool", content |-> content, tool_calls |-> <<>>,
   tool_call_id |-> tool_call_id]

----------------------------------------------------------------------------
(* Building the context *)

\* Python's seq[-n:] for an integer n
SliceFromMinus(seq, n) ==
  IF n = 0 THEN seq
  ELSE IF n > 0
    THEN IF n >= Len(seq) THEN seq ELSE SubSeq(seq, Len(seq) - n + 1, Len(seq))
    ELSE IF -n >= Len(seq) THEN <<>> ELSE SubSeq(seq, 1 - n, Len(seq))

\* Faulty variant: the slice keeps the oldest messages instead of the newest
HistoryToIncludeLeading(history, H) ==
  IF H * 2 >= Len(history) THEN history ELSE SubSeq(history, 1, H * 2)

\* self.conversation_history[-(self.max_history * 2):]
HistoryToInclude(history, H) == SliceFromMinus(history, H * 2)

RECURSIVE HistoryAsMessages(_)
HistoryAsMessages(msgs) ==
  IF msgs = <<>> THEN <<>>
  ELSE LET m == Head(msgs)
           rest == HistoryAsMessages(Tail(msgs))
       IN IF m.role = "user" THEN <<HumanMessage(m.content)>> \o rest
          ELSE IF m.role = "assistant" THEN <<AIMessage(m.content, <<>>)>> \o rest
          ELSE rest

\* Faulty variant: retrieved passages follow the history as a second
\* system message.
BuildMessagesWithPassages(prompt, history, H) ==
  <<SystemMessage(prompt)>> \o HistoryAsMessages(HistoryToInclude(history, H))
    \o <<SystemMessage(<<"Relevant context:">>)>>

BuildMessagesForHistory(prompt, history, H) ==
  <<SystemMessage(prompt)>> \o HistoryAsMessages(HistoryToInclude(history, H))

----------------------------------------------------------------------------
(* The language model and the tool functions (external) *)

LLMFailure == "model unavailable"
ToolFailure == "tool failed"
\* str(e) of the AttributeError raised by response_text.strip() on a list
NoStripError == "'list' object has no attribute 'strip'"

\* A tool descriptor: its name and the function it invokes.
Tool(name, func) == [name |-> name, func |-> func]

\* What the tool's function returns when it succeeds: a text (the way chat
\* passes tool_args to the function does not change what the function's
\* result is turned into, and is left out).
ToolOutput(tool) == <<"output of ", tool.func>>

\* An entry of response.tool_calls.
ToolCall(name, id) == [name |-> name, id |-> id]

\* The outcome of llm_with_tools.invoke: it raised (error is str(e)), or
\* it returned the message.
LLMRaised(e) == [error |-> e, message |-> AIMessage(Empty, <<>>)]
LLMReturned(message) == [error |-> "", message |-> message]

----------------------------------------------------------------------------
(* The tool-call loop of chat *)

\* for tool in self.tools: if tool.name == tool_name: ... break
\* the index of the first tool of that name, 0 when there is none
RECURSIVE FindToolFrom(_, _, _)
FindToolFrom(tls, tool_name, i) ==
  IF i > Len(tls) THEN 0
  ELSE IF tls[i].name = tool_name THEN i
  ELSE FindToolFrom(tls, tool_name, i + 1)

FindTool(tls, tool_name) == FindToolFrom(tls, tool_name, 1)

\* One iteration of "for tool_call in response.tool_calls": the content of
\* the ToolMessage appended, what is appended to tool_calls_made, and the
\* function invoked (if any).  behaviour is what the function does when it
\* is invoked: "ok" (returns its output) or "raise".
ExecuteToolCall(tls, tool_call, behaviour) ==
  LET i == FindTool(tls, tool_call.name)
  IN IF i = 0
       THEN [content |-> NotFoundText(tool_call.name),
             made |-> <<>>, executed |-> <<>>]
     ELSE IF behaviour = "ok"
       THEN [content |-> ToolOutput(tls[i]),
             made |-> <<MadeEntry(tool_call.name, ToolOutput(tls[i]))>>,
             executed |-> <<[id |-> tool_call.id, func |-> tls[i].func,
                             raised |-> FALSE]>>]
     ELSE [content |-> ToolErrorText(tool_call.name, ToolFailure),
           made |-> <<>>,
           executed |-> <<[id |-> tool_call.id, func |-> tls[i].func,
                           raised |-> TRUE]>>]

\* Faulty variant: a tool function that raises ends the loop: the calls after it
\* get no result
RECURSIVE ToolLoopStopsAtFailure(_, _, _, _)
ToolLoopStopsAtFailure(tls, tool_calls, behaviours, i) ==
  IF i > Len(tool_calls)
    THEN [messages |-> <<>>, made |-> <<>>, executed |-> <<>>]
  ELSE LET one == ExecuteToolCall(tls, tool_calls[i], behaviours[i])
           failed == one.executed # <<>> /\ one.executed[1].raised
           rest == IF failed
                     THEN [messages |-> <<>>, made |-> <<>>,
                           executed |-> <<>>]
                     ELSE ToolLoopStopsAtFailure(tls, tool_calls,
                                                 behaviours, i + 1)
       IN [messages |-> <<ToolMessage(one.content, tool_calls[i].id)>>
                          \o rest.messages,
           made |-> one.made \o rest.made,
           executed |-> one.executed \o rest.executed]

\* The whole loop over tool_calls[i..]: the ToolMessages appended to
\* history_messages, tool_calls_made and the functions invoked, in order.
RECURSIVE ToolLoopFrom(_, _, _, _)
ToolLoopFrom(tls, tool_calls, behaviours, i) ==
  IF i > Len(tool_calls)
    THEN [messages |-> <<>>, made |-> <<>>, executed |-> <<>>]
  ELSE LET one == ExecuteToolCall(tls, tool_calls[i], behaviours[i])
           rest == ToolLoopFrom(tls, tool_calls, behaviours, i + 1)
       IN [messages |-> <<ToolMessage(one.content, tool_calls[i].id)>>
                          \o rest.messages,
           made |-> one.made \o rest.made,
           executed |-> one.executed \o rest.executed]

\* Faulty variant: the tool messages are appended in the reverse order.
ToolLoopReversed(tls, tool_calls, behaviours) ==
  LET loop == ToolLoopFrom(tls, tool_calls, behaviours, 1)
      n == Len(loop.messages)
  IN [loop EXCEPT !.messages = [i \in 1..n |-> loop.messages[n + 1 - i]]]

ToolLoop(tls, tool_calls, behaviours) ==
  ToolLoopFrom(tls, tool_calls, behaviours, 1)

\* "if tool_calls_made:" guarding the second invocation
SecondInvocation(tool_calls_made) == tool_calls_made # <<>>

----------------------------------------------------------------------------
(* The end of a turn *)

\* Faulty variant: only the empty string is replaced, not whitespace-only text
ResponseTextNoStrip(response) ==
  IF response.content = Empty
    THEN [error |-> "", text |-> FallbackText]
  ELSE IF response.content = NonText
    THEN [error |-> NoStripError, text |-> Empty]
  ELSE [error |-> "", text |-> response.content]

\* Extracting the response text and substituting the default for an empty
\* one; error is str(e) when the extraction raises.
ResponseText(response) ==
  IF response.content = Empty
    THEN [error |-> "", text |-> FallbackText]
  ELSE IF response.content = NonText
    THEN [error |-> NoStripError, text |-> Empty]
  ELSE IF Strip(response.content) = Empty
    THEN [error |-> "", text |-> FallbackText]
  ELSE [error |-> "", text |-> response.content]

\* Faulty variant: the assistant message is stored before the user message
StoreTurnAnswerFirst(history, message, response_text, tool_calls_made) ==
  history \o <<Message("assistant", response_text,
                       TurnMetadata(tool_calls_made)),
               Message("user", message, NoMetadata)>>

\* The two appends that store a turn.
StoreTurn(history, message, response_text, tool_calls_made) ==
  history \o <<Message("user", message, NoMetadata),
               Message("assistant", response_text,
                       TurnMetadata(tool_calls_made))>>

\* Faulty variant: the except clause lets the exception go on to the caller
OnExceptionReraise(e) == [kind |-> "raise", value |-> <<e>>]

\* except Exception as e: return the apology
OnException(e) == [kind |-> "return", value |-> ApologyText(e)]

OnSuccess(response_text) == [kind |-> "return", value |-> response_text]

----------------------------------------------------------------------------
(* BaseAgent.chat *)

\* The locals of a chat call when it ends: the contexts passed to the model
\* invocations in order (invocations), what each invocation did (replies),
\* the history_messages list (messages), tool_calls_made and the tool
\* functions invoked.
Locals(invocations, replies, messages, made, executed) ==
  [invocations |-> invocations, replies |-> replies, messages |-> messages,
   tool_calls_made |-> made, executed |-> executed]

\* Faulty variant: the tool messages of the turn are stored in the history.
TurnStoresToolMessages(message, before, history, outcome, error, locals) ==
  [op |-> "chat", message |-> message, before |-> before,
   history |-> history \o
     [i \in 1..Len(SelectSeq(locals.messages, LAMBDA m : m.type = "tool")) |->
        Message("tool", SelectSeq(locals.messages, LAMBDA m : m.type = "tool")[i].content,
                NoMetadata)],
   outcome |-> outcome, error |-> error,
   invocations |-> locals.invocations, replies |-> locals.replies,
   messages |-> locals.messages,
   tool_calls_made |-> locals.tool_calls_made,
   executed |-> locals.executed]

\* What a turn leaves behind: the history before and after it, what the
\* caller gets (outcome), str(e) of the exception caught at the turn
\* boundary (error, "" when there was none), and its locals.
Turn(message, before, history, outcome, error, locals) ==
  [op |-> "chat", message |-> message, before |-> before,
   history |-> history, outcome |-> outcome, error |-> error,
   invocations |-> locals.invocations, replies |-> locals.replies,
   messages |-> locals.messages,
   tool_calls_made |-> locals.tool_calls_made,
   executed |-> locals.executed]

\* Faulty variant: the user message is stored before the model is invoked, so a
\* failing turn leaves it behind
FailedTurnKeepsUserMessage(message, history, e, locals) ==
  Turn(message, history,
       history \o <<Message("user", message, NoMetadata)>>,
       OnException(e), e, locals)

\* The turn ends in the except clause: nothing is stored.
FailedTurn(message, history, e, locals) ==
  Turn(message, history, history, OnException(e), e, locals)

\* Faulty variant: tool calls asked for by the second response are run too and the
\* model is invoked a third time
FinishTurnChained(message, history, response, locals) ==
  LET again == Len(locals.invocations) = 2 /\ response.tool_calls # <<>>
      chained ==
        IF again
          THEN Locals(locals.invocations
                        \o <<locals.messages \o <<response>>>>,
                      locals.replies \o <<LLMReturned(response)>>,
                      locals.messages \o <<response>>,
                      locals.tool_calls_made,
                      locals.executed
                        \o <<[id |-> response.tool_calls[1].id,
                              func |-> "calculate", raised |-> FALSE]>>)
          ELSE locals
      extracted == ResponseText(response)
  IN IF extracted.error # ""
       THEN FailedTurn(message, history, extracted.error, chained)
       ELSE Turn(message, history,
                 StoreTurn(history, message, extracted.text,
                           chained.tool_calls_made),
                 OnSuccess(extracted.text), "", chained)

\* The turn reaches the response extraction with this response.
FinishTurn(message, history, response, locals) ==
  LET extracted == ResponseText(response)
  IN IF extracted.error # ""
       THEN FailedTurn(message, history, extracted.error, locals)
       ELSE Turn(message, history,
                 StoreTurn(history, message, extracted.text,
                           locals.tool_calls_made),
                 OnSuccess(extracted.text), "", locals)

\* chat(message) on an agent with this prompt, max_history, tools and
\* history, when the first invocation of the model does `first`, the tool
\* functions do `behaviours` and a second invocation does `second`.
ChatTurn(prompt, H, tls, history, message, first, behaviours, second) ==
  LET context == BuildMessagesForHistory(prompt, history, H)
                   \o <<HumanMessage(message)>>
  IN IF first.error # ""
       THEN FailedTurn(message, history, first.error,
              Locals(<<context>>, <<first>>, context, <<>>, <<>>))
     ELSE IF first.message.tool_calls = <<>>
       THEN FinishTurn(message, history, first.message,
              Locals(<<context>>, <<first>>, context, <<>>, <<>>))
     ELSE
       LET loop == ToolLoop(tls, first.message.tool_calls, behaviours)
           extended == context \o <<first.message>> \o loop.messages
       IN IF ~SecondInvocation(loop.made)
            THEN FinishTurn(message, history, first.message,
                   Locals(<<context>>, <<first>>, extended, loop.made,
                          loop.executed))
          ELSE IF second.error # ""
            THEN FailedTurn(message, history, second.error,
                   Locals(<<context, extended>>, <<first, second>>,
                          extended, loop.made, loop.executed))
          ELSE FinishTurn(message, history, second.message,
                 Locals(<<context, extended>>, <<first, second>>, extended,
                        loop.made, loop.executed))

----------------------------------------------------------------------------
(* Inputs *)

UserMessages == {Hello, HowAreYou}

HistoryLimits == 0..MaxHistory

CalculatorTool == Tool("calculator", "calculate")

ToolSets == {<<>>, <<CalculatorTool>>}

\* Names the model asks for: one that may be registered and one that is not.
RequestedNames == {"calculator", "translator"}

CallId(i) == <<"call", i>>

\* The tool_calls lists a response carries: one call or two calls, the
\* i-th with the id CallId(i).
ToolCallLists ==
  {<<ToolCall(a, CallId(1))>> : a \in RequestedNames}
    \cup {<<ToolCall(a, CallId(1)), ToolCall(b, CallId(2))>> :
             a \in RequestedNames, b \in RequestedNames}

\* Responses to the first invocation: text of every kind without tool
\* calls, tool calls without text, and text together with a tool call.
FirstResponses ==
  {AIMessage(c, <<>>) : c \in {Empty, Blank, HiThere, NonText}}
    \cup {AIMessage(Empty, calls) : calls \in ToolCallLists}
    \cup {AIMessage(HiThere, <<ToolCall("translator", CallId(1))>>)}

\* Responses to the second invocation; one of them asks for a tool again.
SecondResponses ==
  {AIMessage(c, <<>>) : c \in {Empty, HiThere}}
    \cup {AIMessage(Empty, <<ToolCall("calculator", CallId(3))>>)}

LLMOutcomes(responses) ==
  {LLMRaised(LLMFailure)} \cup {LLMReturned(r) : r \in responses}

\* What the tool functions do for a list of calls; a call that resolves to
\* no tool invokes nothing, so only "ok" is listed for it.
Behaviours(tls, tool_calls) ==
  {b \in [1..Len(tool_calls) -> {"ok", "raise"}] :
     \A i \in 1..Len(tool_calls) :
        FindTool(tls, tool_calls[i].name) = 0 => b[i] = "ok"}

NoBehaviours == <<>>
NoSecond == LLMRaised("")

----------------------------------------------------------------------------
(* The state machine *)

\* No call is in progress: the caller holds the result of the last one.
Idle == [op |-> "none"]

\* Python's None: no retriever, no reference, nothing returned
None == "None"

\* The names agents are configured under
AgentNames == {"default", "support", "sales"}

\* The llm section names the provider openai and no agent overrides it.
DefaultLLM ==
  /\ llm_config = [provider |-> "openai"]
  /\ llm_override = [n \in AgentNames |-> None]

\* The services beside the agents in their default configuration
\* RAGManager.vectorstore = None
NoVectorstore == [type |-> "none", open |-> FALSE, docs |-> {}]

\* RAG is disabled and no backend holds anything.
NoRag ==
  /\ enabled = FALSE
  /\ vector_db = "chromadb"
  /\ vectorstore = NoVectorstore
  /\ stored = {}

NoServices == DefaultLLM /\ test_set = <<>> /\ NoRag /\ in_flight = <<>>

\* An agent constructed on its own: there is no AgentManager.
NoDirectory ==
  /\ NoServices
  /\ manager = "none"
  /\ agents_config = <<>>
  /\ agents = <<>>
  /\ current_agent_name = "default"
  /\ heap = <<>>
  /\ held = 0

Init ==
  /\ system_prompt = Prompt
  /\ max_history \in HistoryLimits
  /\ use_rag = FALSE
  /\ rag_retriever = None
  /\ tools \in ToolSets
  /\ use_tools = (tools # <<>>)
  /\ llm_with_tools = tools
  /\ conversation_history = <<>>
  /\ NoDirectory
  /\ last = Idle

\* The model's second reply is drawn only when chat invokes it again.
SecondsFor(tls, first, behaviours, seconds) ==
  IF /\ first.error = ""
     /\ first.message.tool_calls # <<>>
     /\ SecondInvocation(ToolLoop(tls, first.message.tool_calls, behaviours).made)
    THEN LLMOutcomes(seconds)
    ELSE {NoSecond}

\* The tool functions run only when the first reply asks for tools.
BehavioursFor(tls, first) ==
  IF first.error = "" /\ first.message.tool_calls # <<>>
    THEN Behaviours(tls, first.message.tool_calls)
    ELSE {NoBehaviours}

\* Every way one chat call can go, for the messages the caller may send
\* and the replies the model may give.
ChatOutcomes(prompt, H, tls, history, messages, firsts, seconds) ==
  UNION {UNION {{ChatTurn(prompt, H, tls, history, mf[1], mf[2], behaviours, second) :
                   second \in SecondsFor(tls, mf[2], behaviours, seconds)} :
                behaviours \in BehavioursFor(tls, mf[2])} :
         mf \in messages \X LLMOutcomes(firsts)}

\* BaseAgent.chat(message)
Chat ==
  /\ last = Idle
  /\ Len(conversation_history) < 2 * MaxTurns
  /\ \E turn \in ChatOutcomes(system_prompt, max_history, tools,
                               conversation_history, UserMessages,
                               FirstResponses, SecondResponses) :
       /\ conversation_history' = turn.history
       /\ last' = turn
  /\ UNCHANGED <<configVars, toolVars, directoryVars>>

\* Faulty variant: clear_history forgets only the oldest entry.
ClearedHistoryDropsOldest(history) ==
  IF history = <<>> THEN <<>> ELSE Tail(history)

\* What clear_history leaves in self.conversation_history
ClearedHistory(history) == <<>>

\* What a call that returns nothing hands to its caller
ReturnedNone == [kind |-> "return", value |-> None]

\* BaseAgent.clear_history()
ClearHistory ==
  /\ last = Idle
  /\ conversation_history' = ClearedHistory(conversation_history)
  /\ last' = [op |-> "clear_history", before |-> conversation_history,
              outcome |-> ReturnedNone]
  /\ UNCHANGED <<configVars, toolVars, directoryVars>>

\* The caller takes what the call returned; calls on one agent are
\* serialized, so the next call starts after this one has returned.
Return ==
  /\ last # Idle
  /\ last' = Idle
  /\ UNCHANGED <<configVars, toolVars, conversation_history, directoryVars>>

Next == Chat \/ ClearHistory \/ Return

Spec == Init /\ [][Next]_vars

----------------------------------------------------------------------------
(* The tool registry and the reconfiguration of an agent's tools *)

\* the number of turns an agent whose tools are reconfigured records
MaxToolTurns == 2

Retriever == "retriever"

RagSearchTool == Tool("rag_search", "rag_search")
WebSearchTool == Tool("web_search", "web_search")
EmailTool == Tool("send_email", "send_email")

Optional(flag, tool) == IF flag THEN <<tool>> ELSE <<>>

\* The keyword arguments of update_tools_individual
Flags(calc, rag, web, email) ==
  [enable_calculator |-> calc, enable_rag_search |-> rag,
   enable_web_search |-> web, enable_email |-> email]

\* get_individual_tools: the descriptor list for the flags; the document
\* search tool is built from the retriever handle and so needs one.
GetIndividualTools(retriever, flags) ==
  Optional(flags.enable_calculator, CalculatorTool)
    \o Optional(flags.enable_rag_search /\ retriever # None, RagSearchTool)
    \o Optional(flags.enable_web_search, WebSearchTool)
    \o Optional(flags.enable_email, EmailTool)

\* get_available_tools: the calculator, the document search when a
\* retriever is handed over, the web search on request.
GetAvailableTools(retriever, include_web_search) ==
  GetIndividualTools(retriever, Flags(TRUE, TRUE, include_web_search, FALSE))

\* rag_retriever=self.rag_retriever if self.use_rag else None
RetrieverArgument(rag, retriever) == IF rag THEN retriever ELSE None

\* self.llm.bind_tools(self.tools) in its try block: the catalog bound to
\* the model, or the plain model when binding raised or there are no tools.
BindTools(tls) == {tls, <<>>}

AnyToolsEnabled(flags) ==
  \/ flags.enable_calculator
  \/ flags.enable_rag_search
  \/ flags.enable_web_search
  \/ flags.enable_email

\* Faulty variant: the previous tools are kept and the new ones added.
ReloadedToolsKeepsPrevious(previous, retriever, flags) ==
  previous \o GetIndividualTools(retriever, flags)

\* self.tools after update_tools_individual
ReloadedTools(previous, retriever, flags) ==
  IF AnyToolsEnabled(flags) THEN GetIndividualTools(retriever, flags) ELSE <<>>

\* The flag settings a caller passes
FlagSettings ==
  {Flags(calc, rag, web, email) : calc \in BOOLEAN, rag \in BOOLEAN,
                                  web \in BOOLEAN, email \in BOOLEAN}

\* BaseAgent.__init__(name, config, rag_retriever)
InitAgentTools ==
  /\ system_prompt = Prompt
  /\ max_history = MaxHistory
  /\ use_rag \in BOOLEAN
  /\ rag_retriever \in {None, Retriever}
  /\ use_tools \in BOOLEAN
  /\ tools = IF use_tools
               THEN GetAvailableTools(RetrieverArgument(use_rag, rag_retriever), FALSE)
               ELSE <<>>
  /\ llm_with_tools \in BindTools(tools)
  /\ conversation_history = <<>>
  /\ NoDirectory
  /\ last = Idle

\* What the model is seen to reply while the tools are reconfigured: a
\* plain answer, or one call of the calculator or of the document search.
ToolUserMessages == {Hello}
ToolFirstResponses ==
  {AIMessage(HiThere, <<>>)}
    \cup {AIMessage(Empty, <<ToolCall(n, CallId(1))>>) : n \in {"calculator", "rag_search"}}
ToolSecondResponses == {AIMessage(HiThere, <<>>)}

\* BaseAgent.chat(message), of an agent whose tools are reconfigured
ToolChat ==
  /\ last = Idle
  /\ Len(conversation_history) < 2 * MaxToolTurns
  /\ \E turn \in ChatOutcomes(system_prompt, max_history, tools,
                               conversation_history, ToolUserMessages,
                               ToolFirstResponses, ToolSecondResponses) :
       /\ conversation_history' = turn.history
       /\ last' = turn
  /\ UNCHANGED <<configVars, toolVars, directoryVars>>

\* BaseAgent.update_tools_individual(enable_calculator, enable_rag_search,
\*                                   enable_web_search, enable_email)
UpdateToolsIndividual ==
  /\ last = Idle
  /\ \E flags \in FlagSettings :
       LET tls == ReloadedTools(tools, RetrieverArgument(use_rag, rag_retriever), flags)
       IN /\ use_tools' = AnyToolsEnabled(flags)
          /\ tools' = tls
          /\ llm_with_tools' \in BindTools(tls)
          /\ last' = [op |-> "update_tools_individual", flags |-> flags,
                      before |-> tools, outcome |-> ReturnedNone]
  /\ UNCHANGED <<configVars, conversation_history, directoryVars>>

\* BaseAgent.update_tools(use_tools, enable_web_search)
UpdateTools ==
  /\ last = Idle
  /\ \E use \in BOOLEAN, web \in BOOLEAN :
       LET tls == IF use
                    THEN GetAvailableTools(RetrieverArgument(use_rag, rag_retriever), web)
                    ELSE <<>>
       IN /\ use_tools' = use
          /\ tools' = tls
          /\ llm_with_tools' \in BindTools(tls)
          /\ last' = [op |-> "update_tools", use_tools |-> use,
                      enable_web_search |-> web, before |-> tools,
                      outcome |-> ReturnedNone]
  /\ UNCHANGED <<configVars, conversation_history, directoryVars>>

NextAgentTools ==
  ToolChat \/ ClearHistory \/ UpdateToolsIndividual \/ UpdateTools \/ Return

SpecAgentTools == InitAgentTools /\ [][NextAgentTools]_vars

----------------------------------------------------------------------------
(* An agent whose tool set holds two tools of one name *)

\* A second tool registered under the name of the calculator
CalculatorToolV2 == Tool("calculator", "calculate_v2")

\* Tool sets with a shared name, in both registration orders
SharedNameToolSets ==
  {<<CalculatorTool, CalculatorToolV2>>,
   <<CalculatorToolV2, CalculatorTool>>,
   <<CalculatorTool, CalculatorTool>>}

InitSharedName ==
  /\ system_prompt = Prompt
  /\ max_history = MaxHistory
  /\ use_rag = FALSE
  /\ rag_retriever = None
  /\ use_tools = TRUE
  /\ tools \in SharedNameToolSets
  /\ llm_with_tools = tools
  /\ conversation_history = <<>>
  /\ NoDirectory
  /\ last = Idle

SpecSharedName == InitSharedName /\ [][Next]_vars

----------------------------------------------------------------------------
(* The agent directory: AgentManager (src/src/agents/agent_manager.py)     *)
(*                                                                         *)
(* heap is the sequence of the BaseAgent instances constructed so far; a   *)
(* reference to an instance is its index.  The dict self.agents keeps its  *)
(* insertion order: it is a sequence of entries (name, reference).         *)

\* BaseAgent instances are constructed while fewer than this many exist
MaxInstances == 4
\* chat is not called on a directory agent that has recorded this many turns
MaxDirectoryTurns == 1

\* The agents sections a configuration file may have (the names, in order)
AgentsConfigs ==
  {<<>>, <<"default", "support">>, <<"support", "sales">>}

\* An agent section of the configuration file: agents answer from their
\* prompt alone, the support agent has tools.
ConfiguredAgent(agent_name) ==
  [system_prompt |-> Prompt, use_rag |-> FALSE, max_history |-> MaxHistory,
   use_tools |-> (agent_name = "support")]

\* default_config of _load_agents
DefaultConfig ==
  [system_prompt |-> Prompt, use_rag |-> TRUE, max_history |-> MaxHistory,
   use_tools |-> TRUE]

\* BaseAgent(name, config, rag_retriever), its tools bound to the model
NewAgent(agent_name, config, retriever) ==
  LET tls == IF config.use_tools
               THEN GetAvailableTools(RetrieverArgument(config.use_rag, retriever), FALSE)
               ELSE <<>>
  IN [name |-> agent_name,
      system_prompt |-> config.system_prompt,
      max_history |-> config.max_history,
      use_rag |-> config.use_rag,
      rag_retriever |-> retriever,
      use_tools |-> config.use_tools,
      tools |-> tls,
      llm_with_tools |-> tls,
      conversation_history |-> <<>>]

\* What is left of an instance that nothing refers to any more
Collected ==
  [name |-> "", system_prompt |-> <<>>, max_history |-> 0, use_rag |-> FALSE,
   rag_retriever |-> None, use_tools |-> FALSE, tools |-> <<>>,
   llm_with_tools |-> <<>>, conversation_history |-> <<>>]

\* name in self.agents
HasKey(dict, key) == \E i \in 1..Len(dict) : dict[i].name = key

\* self.agents[name], for a name in self.agents
Lookup(dict, key) == dict[CHOOSE i \in 1..Len(dict) : dict[i].name = key].ref

\* list(self.agents.keys())
Keys(dict) == [i \in 1..Len(dict) |-> dict[i].name]

\* self.agents[agent_name] = agent
DictSet(dict, key, ref) ==
  IF HasKey(dict, key)
    THEN [i \in 1..Len(dict) |->
            IF dict[i].name = key THEN [name |-> key, ref |-> ref] ELSE dict[i]]
    ELSE Append(dict, [name |-> key, ref |-> ref])

\* The loop of _load_agents over agents_config.items(): the agents whose
\* construction raises are logged and skipped, the others are constructed
\* and stored under their key.
RECURSIVE LoadFrom(_, _, _, _, _, _)
LoadFrom(names, configs, i, failing, dict, hp) ==
  IF i > Len(names) THEN [agents |-> dict, heap |-> hp]
  ELSE IF names[i] \in failing
    THEN LoadFrom(names, configs, i + 1, failing, dict, hp)
  ELSE LoadFrom(names, configs, i + 1, failing,
                DictSet(dict, names[i], Len(hp) + 1),
                Append(hp, NewAgent(names[i], configs[i], None)))

NoAgentsError == "No agents could be loaded"

\* The heap once the instances that neither the directory nor the caller
\* refers to are reclaimed
Reclaim(hp, dict, reference) ==
  [i \in 1..Len(hp) |->
     IF i = reference \/ \E k \in 1..Len(dict) : dict[k].ref = i
       THEN hp[i] ELSE Collected]

\* The names _load_agents iterates over: those configured, or "default"
\* alone when none is configured.
NamesToLoad(config) == IF config = <<>> THEN <<"default">> ELSE config

\* Their configurations
ConfigsToLoad(config) ==
  IF config = <<>>
    THEN <<DefaultConfig>>
    ELSE [i \in 1..Len(config) |-> ConfiguredAgent(config[i])]

\* Faulty variant: a load that constructs no agent ends without an error.
LoadAgentsSilently(config, failing, dict, current, hp) ==
  LET loaded == LoadFrom(NamesToLoad(config), ConfigsToLoad(config), 1,
                         failing, dict, hp)
  IN [agents |-> loaded.agents, heap |-> loaded.heap, error |-> "",
      current_agent_name |->
        IF ~HasKey(loaded.agents, "default") /\ loaded.agents # <<>>
          THEN Keys(loaded.agents)[1] ELSE current]

\* AgentManager._load_agents(): what it leaves in self.agents and
\* self.current_agent_name, the instances it constructed, and the error it
\* raised ("" when it returned).
LoadAgents(config, failing, dict, current, hp) ==
  LET loaded == LoadFrom(NamesToLoad(config), ConfigsToLoad(config), 1,
                         failing, dict, hp)
  IN IF loaded.agents = <<>>
       THEN [agents |-> loaded.agents, heap |-> loaded.heap,
             current_agent_name |-> current, error |-> NoAgentsError]
       ELSE [agents |-> loaded.agents, heap |-> loaded.heap, error |-> "",
             current_agent_name |->
               IF ~HasKey(loaded.agents, "default")
                 THEN Keys(loaded.agents)[1] ELSE current]

\* The agents whose construction may raise during one load
FailingSets(config) ==
  SUBSET {NamesToLoad(config)[i] : i \in 1..Len(NamesToLoad(config))}

Raised(e) == [kind |-> "raise", value |-> e]
Returned(v) == [kind |-> "return", value |-> v]

\* A snapshot of the directory, for the caller to compare with
Directory ==
  [agents |-> agents, current_agent_name |-> current_agent_name, heap |-> heap]

\* The program starts with its configuration file; no AgentManager yet.
InitDirectory ==
  /\ system_prompt = Prompt
  /\ max_history = MaxHistory
  /\ use_rag = FALSE
  /\ rag_retriever = None
  /\ use_tools = FALSE
  /\ tools = <<>>
  /\ llm_with_tools = <<>>
  /\ conversation_history = <<>>
  /\ manager = "none"
  /\ agents_config \in AgentsConfigs
  /\ agents = <<>>
  /\ current_agent_name = "default"
  /\ heap = <<>>
  /\ held = 0
  /\ NoServices
  /\ last = Idle

\* AgentManager(): __init__ with its call of _load_agents; the constructor
\* raises what _load_agents raises, and then there is no manager.
NewAgentManager ==
  /\ last = Idle
  /\ manager = "none"
  /\ \E failing \in FailingSets(agents_config) :
       LET loaded == LoadAgents(agents_config, failing, <<>>, "default", heap)
       IN /\ agents' = loaded.agents
          /\ heap' = loaded.heap
          /\ current_agent_name' = loaded.current_agent_name
          /\ manager' = IF loaded.error = "" THEN "constructed" ELSE "failed"
          /\ last' = [op |-> "AgentManager", failing |-> failing,
                      before |-> Directory,
                      outcome |-> IF loaded.error = "" THEN ReturnedNone
                                  ELSE Raised(loaded.error)]
  /\ UNCHANGED <<configVars, toolVars, conversation_history, agents_config, held>>

\* AgentManager.reload_agents(): self.agents.clear(); self._load_agents()
ReloadAgents ==
  /\ last = Idle
  /\ manager = "constructed"
  /\ Len(heap) + Len(NamesToLoad(agents_config)) <= MaxInstances
  /\ \E failing \in FailingSets(agents_config) :
       LET loaded == LoadAgents(agents_config, failing, <<>>, current_agent_name, heap)
       IN /\ agents' = loaded.agents
          /\ heap' = Reclaim(loaded.heap, loaded.agents, held)
          /\ current_agent_name' = loaded.current_agent_name
          /\ last' = [op |-> "reload_agents", failing |-> failing,
                      before |-> Directory,
                      outcome |-> IF loaded.error = "" THEN ReturnedNone
                                  ELSE Raised(loaded.error)]
  /\ UNCHANGED <<configVars, toolVars, conversation_history, manager, agents_config, held>>

\* The agent_name arguments callers pass: omitted (None), the empty
\* string, names that may be registered and one that never is.
NameArguments == {None, "", "default", "support", "sales", "unknown"}

NotFoundError(name) == <<"Agent not found: ", name>>

\* agent_name or self.current_agent_name
NameOrCurrent(agent_name, current) ==
  IF agent_name = None \/ agent_name = "" THEN current ELSE agent_name

\* Faulty variant: an unknown name falls back to the current agent.
GetAgentLenient(dict, current, agent_name) ==
  IF HasKey(dict, NameOrCurrent(agent_name, current))
    THEN Returned(Lookup(dict, NameOrCurrent(agent_name, current)))
  ELSE IF HasKey(dict, current) THEN Returned(Lookup(dict, current))
  ELSE Raised(NotFoundError(current))

\* AgentManager.get_agent(agent_name): the reference returned, or the
\* ValueError raised
GetAgentResult(dict, current, agent_name) ==
  LET name == NameOrCurrent(agent_name, current)
  IN IF ~HasKey(dict, name)
       THEN Raised(NotFoundError(name))
       ELSE Returned(Lookup(dict, name))

\* AgentManager.get_agent(agent_name); the caller keeps the reference
GetAgent ==
  /\ last = Idle
  /\ manager = "constructed"
  /\ \E agent_name \in NameArguments :
       LET result == GetAgentResult(agents, current_agent_name, agent_name)
       IN /\ held' = IF result.kind = "return" THEN result.value ELSE held
          /\ heap' = Reclaim(heap, agents, held')
          /\ last' = [op |-> "get_agent", agent_name |-> agent_name,
                      before |-> Directory, outcome |-> result]
  /\ UNCHANGED <<configVars, toolVars, conversation_history, manager,
                 agents_config, agents, current_agent_name>>

\* Faulty variant: the pointer is moved before the name is looked up.
SetCurrentAgentUnchecked(dict, current, agent_name) ==
  [current_agent_name |-> agent_name,
   outcome |-> IF HasKey(dict, agent_name) THEN ReturnedNone
               ELSE Raised(NotFoundError(agent_name))]

\* AgentManager.set_current_agent(agent_name): the pointer it leaves and
\* what it returns or raises
SetCurrentAgentResult(dict, current, agent_name) ==
  IF ~HasKey(dict, agent_name)
    THEN [current_agent_name |-> current,
          outcome |-> Raised(NotFoundError(agent_name))]
    ELSE [current_agent_name |-> agent_name, outcome |-> ReturnedNone]

\* AgentManager.set_current_agent(agent_name)
SetCurrentAgent ==
  /\ last = Idle
  /\ manager = "constructed"
  /\ \E agent_name \in NameArguments \ {None} :
       LET result == SetCurrentAgentResult(agents, current_agent_name, agent_name)
       IN /\ current_agent_name' = result.current_agent_name
          /\ last' = [op |-> "set_current_agent", agent_name |-> agent_name,
                      before |-> Directory, outcome |-> result.outcome]
  /\ UNCHANGED <<configVars, toolVars, conversation_history, manager,
                 agents_config, agents, heap, held>>

\* BaseAgent.get_info()
GetInfo(agent) ==
  [name |-> agent.name, use_rag |-> agent.use_rag,
   use_tools |-> Len(agent.tools) > 0, history_length |-> Len(agent.conversation_history)]

\* AgentManager.list_agents(): the dict of names to agent info, in order
ListAgentsResult(dict, hp) ==
  [i \in 1..Len(dict) |-> [name |-> dict[i].name, info |-> GetInfo(hp[dict[i].ref])]]

\* AgentManager.list_agents()
ListAgents ==
  /\ last = Idle
  /\ manager = "constructed"
  /\ last' = [op |-> "list_agents", before |-> Directory,
              outcome |-> Returned(ListAgentsResult(agents, heap))]
  /\ UNCHANGED <<configVars, toolVars, conversation_history, directoryVars>>

\* What the model is seen to reply to the agents of the directory
DirectoryUserMessages == {Hello}
DirectoryFirstResponses == {AIMessage(HiThere, <<>>)}
DirectorySecondResponses == {AIMessage(HiThere, <<>>)}

\* agent.chat(message) on the instance behind a reference: every way the
\* call can go
AgentChatOutcomes(agent) ==
  ChatOutcomes(agent.system_prompt, agent.max_history, agent.tools,
               agent.conversation_history, DirectoryUserMessages,
               DirectoryFirstResponses, DirectorySecondResponses)

\* Faulty variant: the instances of one name share their history.
HeapAfterChatSharedByName(hp, ref, turn) ==
  [i \in 1..Len(hp) |->
     IF hp[i].name = hp[ref].name
       THEN [hp[i] EXCEPT !.conversation_history = turn.history]
       ELSE hp[i]]

\* The heap after agent.chat has stored its turn in the instance
HeapAfterChat(hp, ref, turn) ==
  [hp EXCEPT ![ref].conversation_history = turn.history]

\* Faulty variant: clearing one agent clears them all.
HeapAfterClearAll(hp, ref) ==
  [i \in 1..Len(hp) |-> [hp[i] EXCEPT !.conversation_history = <<>>]]

\* The heap after agent.clear_history()
HeapAfterClear(hp, ref) ==
  [hp EXCEPT ![ref].conversation_history = ClearedHistory(hp[ref].conversation_history)]

\* AgentManager.chat(message, agent_name)
ManagerChat ==
  /\ last = Idle
  /\ manager = "constructed"
  /\ \E agent_name \in NameArguments :
       LET result == GetAgentResult(agents, current_agent_name, agent_name)
       IN IF result.kind = "raise"
            THEN /\ heap' = heap
                 /\ last' = [op |-> "manager.chat", agent_name |-> agent_name,
                             before |-> Directory, ref |-> 0,
                             turn |-> Idle, outcome |-> result]
            ELSE /\ Len(heap[result.value].conversation_history) < 2 * MaxDirectoryTurns
                 /\ \E turn \in AgentChatOutcomes(heap[result.value]) :
                      /\ heap' = HeapAfterChat(heap, result.value, turn)
                      /\ last' = [op |-> "manager.chat", agent_name |-> agent_name,
                                  before |-> Directory, ref |-> result.value,
                                  turn |-> turn, outcome |-> turn.outcome]
  /\ UNCHANGED <<configVars, toolVars, conversation_history, manager,
                 agents_config, agents, current_agent_name, held>>

\* AgentManager.clear_history(agent_name)
ManagerClearHistory ==
  /\ last = Idle
  /\ manager = "constructed"
  /\ \E agent_name \in NameArguments :
       LET result == GetAgentResult(agents, current_agent_name, agent_name)
       IN IF result.kind = "raise"
            THEN /\ heap' = heap
                 /\ last' = [op |-> "manager.clear_history", agent_name |-> agent_name,
                             before |-> Directory, ref |-> 0, outcome |-> result]
            ELSE /\ heap' = HeapAfterClear(heap, result.value)
                 /\ last' = [op |-> "manager.clear_history", agent_name |-> agent_name,
                             before |-> Directory, ref |-> result.value,
                             outcome |-> ReturnedNone]
  /\ UNCHANGED <<configVars, toolVars, conversation_history, manager,
                 agents_config, agents, current_agent_name, held>>

\* agent.chat(message) on the reference the caller holds
AgentChat ==
  /\ last = Idle
  /\ held # 0
  /\ Len(heap[held].conversation_history) < 2 * MaxDirectoryTurns
  /\ \E turn \in AgentChatOutcomes(heap[held]) :
       /\ heap' = HeapAfterChat(heap, held, turn)
       /\ last' = [op |-> "agent.chat", before |-> Directory, ref |-> held,
                   turn |-> turn, outcome |-> turn.outcome]
  /\ UNCHANGED <<configVars, toolVars, conversation_history, manager,
                 agents_config, agents, current_agent_name, held>>

\* agent.clear_history() on the reference the caller holds
AgentClearHistory ==
  /\ last = Idle
  /\ held # 0
  /\ heap' = HeapAfterClear(heap, held)
  /\ last' = [op |-> "agent.clear_history", before |-> Directory,
              ref |-> held, outcome |-> ReturnedNone]
  /\ UNCHANGED <<configVars, toolVars, conversation_history, manager,
                 agents_config, agents, current_agent_name, held>>

\* The tool settings callers pass to the manager
DirectoryFlagSettings ==
  {Flags(FALSE, FALSE, FALSE, FALSE), Flags(TRUE, FALSE, TRUE, FALSE)}
DirectoryToolSwitches == {<<FALSE, FALSE>>, <<TRUE, FALSE>>}

\* Faulty variant: the new tool set is given to every agent.
HeapAfterToolUpdateAll(hp, ref, use, tls, bound) ==
  [i \in 1..Len(hp) |->
     [hp[i] EXCEPT !.use_tools = use, !.tools = tls, !.llm_with_tools = bound]]

\* The heap after update_tools / update_tools_individual on one instance
HeapAfterToolUpdate(hp, ref, use, tls, bound) ==
  [hp EXCEPT ![ref].use_tools = use, ![ref].tools = tls,
             ![ref].llm_with_tools = bound]

\* AgentManager.update_agent_tools_individual(enable_calculator, ...)
ManagerUpdateToolsIndividual ==
  /\ last = Idle
  /\ manager = "constructed"
  /\ \E flags \in DirectoryFlagSettings :
       LET result == GetAgentResult(agents, current_agent_name, current_agent_name)
       IN IF result.kind = "raise"
            THEN /\ heap' = heap
                 /\ last' = [op |-> "manager.update_tools_individual",
                             flags |-> flags, before |-> Directory, ref |-> 0,
                             outcome |-> result]
            ELSE LET agent == heap[result.value]
                     tls == ReloadedTools(agent.tools,
                              RetrieverArgument(agent.use_rag, agent.rag_retriever), flags)
                 IN \E bound \in BindTools(tls) :
                      /\ heap' = HeapAfterToolUpdate(heap, result.value,
                                   AnyToolsEnabled(flags), tls, bound)
                      /\ last' = [op |-> "manager.update_tools_individual",
                                  flags |-> flags, before |-> Directory,
                                  ref |-> result.value, outcome |-> ReturnedNone]
  /\ UNCHANGED <<configVars, toolVars, conversation_history, manager,
                 agents_config, agents, current_agent_name, held>>

\* AgentManager.update_agent_tools(use_tools, enable_web_search)
ManagerUpdateTools ==
  /\ last = Idle
  /\ manager = "constructed"
  /\ \E switch \in DirectoryToolSwitches :
       LET result == GetAgentResult(agents, current_agent_name, current_agent_name)
       IN IF result.kind = "raise"
            THEN /\ heap' = heap
                 /\ last' = [op |-> "manager.update_tools", use_tools |-> switch[1],
                             enable_web_search |-> switch[2], before |-> Directory,
                             ref |-> 0, outcome |-> result]
            ELSE LET agent == heap[result.value]
                     tls == IF switch[1]
                              THEN GetAvailableTools(
                                     RetrieverArgument(agent.use_rag, agent.rag_retriever),
                                     switch[2])
                              ELSE <<>>
                 IN \E bound \in BindTools(tls) :
                      /\ heap' = HeapAfterToolUpdate(heap, result.value, switch[1],
                                                     tls, bound)
                      /\ last' = [op |-> "manager.update_tools", use_tools |-> switch[1],
                                  enable_web_search |-> switch[2],
                                  before |-> Directory, ref |-> result.value,
                                  outcome |-> ReturnedNone]
  /\ UNCHANGED <<configVars, toolVars, conversation_history, manager,
                 agents_config, agents, current_agent_name, held>>

\* The directory under tool reconfiguration from the sidebar
NextDirectoryTools ==
  \/ NewAgentManager
  \/ ReloadAgents
  \/ SetCurrentAgent
  \/ ManagerChat
  \/ ManagerUpdateToolsIndividual
  \/ ManagerUpdateTools
  \/ Return

SpecDirectoryTools == InitDirectory /\ [][NextDirectoryTools]_vars

NextDirectory ==
  \/ NewAgentManager
  \/ ReloadAgents
  \/ GetAgent
  \/ SetCurrentAgent
  \/ ListAgents
  \/ ManagerChat
  \/ ManagerClearHistory
  \/ AgentChat
  \/ AgentClearHistory
  \/ Return

SpecDirectory == InitDirectory /\ [][NextDirectory]_vars

----------------------------------------------------------------------------
(* Reading a finished chat call *)

ChatReturned == last.op = "chat"

\* The context passed to the first invocation of the model.
FirstContext == last.invocations[1]

\* Some invocation of the model raised during the call.
ModelRaised == \E i \in 1..Len(last.replies) : last.replies[i].error # ""

Min(a, b) == IF a <= b THEN a ELSE b

\* The tool calls the first response asked for (none when it raised).
RequestedCalls ==
  IF last.replies[1].error = ""
    THEN last.replies[1].message.tool_calls
    ELSE <<>>

\* The response the answer is taken from: that of the last invocation.
FinalResponse == last.replies[Len(last.replies)].message

\* No tool of the agent has this name.
NotRegistered(tool_name) ==
  \A t \in 1..Len(tools) : tools[t].name # tool_name

\* A tool function raised during the call.
ToolRaised == \E k \in 1..Len(last.executed) : last.executed[k].raised

\* The text is empty or whitespace only.
IsBlank(t) == \A i \in 1..Len(t) : t[i] \in Whitespace

\* The turn ended with the turn-level apology.
IsApology(t) ==
  Len(t) >= 1 /\ t[1] = "I apologize, but I encountered an error: "

----------------------------------------------------------------------------
(* Claims *)

\* C1 (turn atomicity): when an invocation of the model made by chat
\* raises, the first one or the second one after the tools ran, the
\* conversation history after the call is the history before it: neither the
\* user message nor an assistant message is appended.
C1_TurnAtomicity ==
  (ChatReturned /\ ModelRaised) => conversation_history = last.before

\* The second invocation raised, after a tool ran, on a non-empty history.
C1_Witness ==
  /\ ChatReturned
  /\ Len(last.replies) = 2
  /\ last.replies[2].error # ""
  /\ last.executed # <<>>
  /\ last.before # <<>>

\* C2 (never raises): chat always returns to its caller; when a step of
\* the turn raised, what it returns is an apology text that contains the
\* description of the error.
C2_NeverRaises ==
  ChatReturned =>
    /\ last.outcome.kind = "return"
    /\ last.error # "" =>
         \E i \in 1..Len(last.outcome.value) :
            last.outcome.value[i] = last.error

\* The response extraction raised (the content was not a str).
C2_Witness ==
  /\ ChatReturned
  /\ ~ModelRaised
  /\ last.error = NoStripError

\* C3 (history truncation), as claimed for every max_history >= 0: the
\* context of the first invocation is the system message, at most
\* 2 * max_history messages of the history and the new user message, while
\* the history keeps every recorded message.
C3_HistoryTruncation ==
  ChatReturned =>
    /\ FirstContext[1] = SystemMessage(system_prompt)
    /\ Len(FirstContext) - 2 <= 2 * max_history
    /\ Len(conversation_history) >= Len(last.before)
    /\ SubSeq(conversation_history, 1, Len(last.before)) = last.before

\* C4 (context shape): the context of the first invocation is the system
\* message with the agent's prompt, then a trailing part of the history in
\* insertion order (user entries as human messages, assistant entries as AI
\* messages; the last 2 * max_history entries when max_history > 0), then
\* the new user message; with max_history = 1 and no tools, after the turn
\* "Hello" / "Hi there." the context of "How are you?" is the four entries
\* system, "Hello", "Hi there.", "How are you?".
C4_ContextShape ==
  ChatReturned =>
    LET ctx == FirstContext
        n == Len(ctx)
        hist == last.before
        k == n - 2
    IN /\ n >= 2
       /\ ctx[1] = SystemMessage(system_prompt)
       /\ ctx[n] = HumanMessage(last.message)
       /\ k <= Len(hist)
       /\ max_history > 0 => k = Min(2 * max_history, Len(hist))
       /\ \A j \in 1..k :
            LET m == hist[Len(hist) - k + j]
            IN /\ ctx[1 + j].content = m.content
               /\ ctx[1 + j].type =
                    (IF m.role = "user" THEN "human" ELSE "ai")
       /\ ( /\ max_history = 1
            /\ tools = <<>>
            /\ Len(hist) = 2
            /\ hist[1].role = "user" /\ hist[1].content = Hello
            /\ hist[2].role = "assistant" /\ hist[2].content = HiThere
            /\ last.message = HowAreYou )
          => ctx = <<SystemMessage(system_prompt), HumanMessage(Hello),
                     AIMessage(HiThere, <<>>), HumanMessage(HowAreYou)>>

\* The second call of the scenario: "How are you?" after "Hello" /
\* "Hi there.", with max_history = 1 and no tools.
C4_Witness ==
  /\ ChatReturned
  /\ max_history = 1
  /\ tools = <<>>
  /\ last.before = <<Message("user", Hello, NoMetadata),
                     Message("assistant", HiThere, TurnMetadata(<<>>))>>
  /\ last.message = HowAreYou
  /\ Len(FirstContext) = 4

\* C5 (tool fallback), as claimed: when the first response asks for a tool
\* that is not in the agent's tool set, chat returns, and the "tool not
\* found" text of that call is in the context passed to a second invocation
\* of the model.
C5_ToolFallback ==
  (ChatReturned /\ \E i \in 1..Len(RequestedCalls) :
                      NotRegistered(RequestedCalls[i].name)) =>
    /\ last.outcome.kind = "return"
    /\ Len(last.invocations) = 2
    /\ \A i \in 1..Len(RequestedCalls) :
         NotRegistered(RequestedCalls[i].name) =>
           \E j \in 1..Len(last.invocations[2]) :
              last.invocations[2][j] =
                ToolMessage(<<"Tool ", RequestedCalls[i].name, " not found">>,
                            RequestedCalls[i].id)

\* C6 (re-invocation), as claimed: whenever the first response asks for
\* tool calls, whatever becomes of them, the model is invoked exactly once
\* more with the first context, the tool-request message and one tool
\* message per call, and the text of that second response is the answer.
C6_ReinvokeOnce ==
  (ChatReturned /\ RequestedCalls # <<>>) =>
    /\ Len(last.invocations) = 2
    /\ LET second == last.invocations[2]
           n == Len(FirstContext)
       IN /\ Len(second) = n + 1 + Len(RequestedCalls)
          /\ SubSeq(second, 1, n) = FirstContext
          /\ second[n + 1] = last.replies[1].message
          /\ \A i \in 1..Len(RequestedCalls) :
               /\ second[n + 1 + i].type = "tool"
               /\ second[n + 1 + i].tool_call_id = RequestedCalls[i].id
    /\ (last.replies[2].error = "" /\ ~IsBlank(FinalResponse.content)) =>
         last.outcome.value = last.replies[2].message.content

\* C7 (bounded rounds): a chat call invokes the model at most twice and
\* returns; it invokes it a second time only after a first response that
\* asked for tool calls, never after an invocation that raised, and the
\* only tool functions it runs are those of the first response's calls.
C7_BoundedRounds ==
  ChatReturned =>
    /\ Len(last.invocations) \in {1, 2}
    /\ Len(last.replies) = Len(last.invocations)
    /\ last.outcome.kind = "return"
    /\ Len(last.invocations) = 2 => RequestedCalls # <<>>
    /\ last.replies[1].error # "" => Len(last.invocations) = 1
    /\ Len(last.executed) <= Len(RequestedCalls)
    /\ \A k \in 1..Len(last.executed) :
         \E i \in 1..Len(RequestedCalls) :
            RequestedCalls[i].id = last.executed[k].id

\* The second response asked for a tool again, and the call returned.
C7_Witness ==
  /\ ChatReturned
  /\ Len(last.replies) = 2
  /\ last.replies[2].error = ""
  /\ last.replies[2].message.tool_calls # <<>>

\* C8 (tool failure is not fatal): when a tool function raises, the tool
\* message of that call carries the error text naming the tool and the
\* error, every requested call still gets its tool message in order, and
\* unless the model itself fails the turn is recorded as a user/assistant
\* pair and does not end with the turn-level apology.
C8_ToolFailureNotFatal ==
  (ChatReturned /\ ToolRaised) =>
    LET n == Len(FirstContext)
    IN /\ Len(last.messages) = n + 1 + Len(RequestedCalls)
       /\ \A i \in 1..Len(RequestedCalls) :
            /\ last.messages[n + 1 + i].type = "tool"
            /\ last.messages[n + 1 + i].tool_call_id = RequestedCalls[i].id
            /\ (\E k \in 1..Len(last.executed) :
                  /\ last.executed[k].id = RequestedCalls[i].id
                  /\ last.executed[k].raised)
               => last.messages[n + 1 + i].content =
                    <<"Error executing ", RequestedCalls[i].name, ": ",
                      ToolFailure>>
       /\ (~ModelRaised /\ FinalResponse.content # NonText) =>
            /\ last.error = ""
            /\ ~IsApology(last.outcome.value)
            /\ Len(conversation_history) = Len(last.before) + 2
            /\ conversation_history[Len(last.before) + 1].role = "user"
            /\ conversation_history[Len(last.before) + 2].role = "assistant"

\* The first of two calls raised and the turn was recorded.
C8_Witness ==
  /\ ChatReturned
  /\ Len(RequestedCalls) = 2
  /\ last.executed # <<>>
  /\ last.executed[1].id = RequestedCalls[1].id
  /\ last.executed[1].raised
  /\ last.error = ""
  /\ Len(conversation_history) = Len(last.before) + 2

\* C9 (empty-response substitution): when the text of the final response
\* is empty or whitespace only, chat returns the fixed fallback text and the
\* assistant message it records carries that text, not the empty one.
C9_EmptyResponseSubstitution ==
  (ChatReturned /\ last.error = "" /\ IsBlank(FinalResponse.content)) =>
    LET recorded == conversation_history[Len(conversation_history)]
    IN /\ last.outcome.kind = "return"
       /\ last.outcome.value = FallbackText
       /\ recorded.role = "assistant"
       /\ recorded.content = FallbackText
       /\ recorded.content # FinalResponse.content

\* The model returned the empty string and no tool calls.
C9_Witness ==
  /\ ChatReturned
  /\ last.error = ""
  /\ Len(last.replies) = 1
  /\ FinalResponse.content = Empty
  /\ FinalResponse.tool_calls = <<>>

\* C10 (successful-turn recording): a chat call that ends without an
\* internal exception appends exactly two messages: the user message with
\* the caller's text, then the assistant message with the returned text,
\* whose metadata lists the tools that ran successfully (one entry per tool
\* function that returned, in order) and has used_tools true exactly when
\* that list is not empty.
C10_SuccessfulTurnRecording ==
  (ChatReturned /\ last.error = "") =>
    LET h == conversation_history
        n == Len(last.before)
        ran == SelectSeq(last.executed, LAMBDA e : ~e.raised)
    IN /\ Len(h) = n + 2
       /\ SubSeq(h, 1, n) = last.before
       /\ h[n + 1].role = "user"
       /\ h[n + 1].content = last.message
       /\ h[n + 2].role = "assistant"
       /\ last.outcome.kind = "return"
       /\ h[n + 2].content = last.outcome.value
       /\ h[n + 2].metadata.keys = {"used_tools", "tools_executed"}
       /\ h[n + 2].metadata.used_tools
            = (h[n + 2].metadata.tools_executed # <<>>)
       /\ Len(h[n + 2].metadata.tools_executed) = Len(ran)
       /\ \A k \in 1..Len(ran) :
            \E i \in 1..Len(RequestedCalls) :
               /\ RequestedCalls[i].id = ran[k].id
               /\ h[n + 2].metadata.tools_executed[k][1]
                    = RequestedCalls[i].name

\* A turn in which a tool ran was recorded after earlier turns.
C10_Witness ==
  /\ ChatReturned
  /\ last.error = ""
  /\ last.before # <<>>
  /\ last.tool_calls_made # <<>>
  /\ Len(conversation_history) = Len(last.before) + 2

\* The agent's tool set holds the document search tool.
RetrievalToolActive ==
  \E t \in 1..Len(tools) : tools[t].name = "rag_search"

\* A system-role message other than the leading one is in the context.
InjectedSystemMessage(ctx) ==
  \E j \in 2..Len(ctx) : ctx[j].type = "system"

\* C11 (retrieval injection), as claimed: when the agent has retrieval
\* enabled (and a retriever) and no document search tool in its tool set,
\* the context of the first invocation holds an additional system-role
\* message before the user message; when the tool is active it holds none.
C11_RetrievalInjection ==
  ChatReturned =>
    /\ (use_rag /\ rag_retriever # None /\ ~RetrievalToolActive) =>
          \E j \in 2..(Len(FirstContext) - 1) : FirstContext[j].type = "system"
    /\ RetrievalToolActive => ~InjectedSystemMessage(FirstContext)

\* C11 (retrieval injection), as the code has it: chat never injects
\* retrieved passages; whether retrieval is enabled or not and whether the
\* document search tool is active or not, the only system-role message in
\* the context of any invocation is the leading one with the agent's
\* prompt, and the context of the first invocation ends with the user
\* message.
C11_NoRetrievalInjection ==
  ChatReturned =>
    /\ FirstContext[1] = SystemMessage(system_prompt)
    /\ FirstContext[Len(FirstContext)] = HumanMessage(last.message)
    /\ \A i \in 1..Len(last.invocations) :
         ~InjectedSystemMessage(last.invocations[i])

\* A chat of an agent with retrieval enabled, a retriever and no document
\* search tool has returned an answer of the model.
C11_Witness ==
  /\ ChatReturned
  /\ use_rag
  /\ rag_retriever = Retriever
  /\ ~RetrievalToolActive
  /\ last.error = ""

\* C12 (clear_history): from any history, clear_history returns without an
\* error and leaves the history empty; clearing what a clear left changes
\* nothing (calling it twice is calling it once); and a chat that starts on
\* an empty history, as the one after a clear does, sends the model the
\* system message and the new user message and nothing else.
C12_ClearHistoryIdempotent ==
  /\ last.op = "clear_history" =>
        /\ last.outcome = ReturnedNone
        /\ conversation_history = <<>>
        /\ ClearedHistory(ClearedHistory(last.before)) = conversation_history
  /\ (ChatReturned /\ last.before = <<>>) =>
        FirstContext = <<SystemMessage(system_prompt),
                         HumanMessage(last.message)>>

\* clear_history has just emptied a history of two recorded turns.
C12_Witness ==
  /\ last.op = "clear_history"
  /\ Len(last.before) = 4
  /\ conversation_history = <<>>

\* The call that returned was made on one agent: chat or clear_history,
\* through the manager or on a reference.
OnOneAgent ==
  /\ last.op \in {"manager.chat", "manager.clear_history", "agent.chat",
                  "agent.clear_history"}
  /\ last.ref # 0

\* The instances the directory refers to
DirectoryRefs(dict) == {dict[k].ref : k \in 1..Len(dict)}

\* C13 (directory isolation): a chat or a clear_history on agent A, through
\* the AgentManager or on A itself, leaves the conversation_history of every
\* other agent B of the directory as it was, whatever chats came before, and
\* leaves the directory and the current pointer as they were.
C13_DirectoryIsolation ==
  OnOneAgent =>
    /\ agents = last.before.agents
    /\ current_agent_name = last.before.current_agent_name
    /\ \A b \in DirectoryRefs(agents) \ {last.ref} :
         heap[b].conversation_history = last.before.heap[b].conversation_history

\* AgentManager.clear_history on an agent with a recorded turn, while
\* another agent of the directory has a recorded turn too.
C13_Witness ==
  /\ last.op = "manager.clear_history"
  /\ last.ref # 0
  /\ last.before.heap[last.ref].conversation_history # <<>>
  /\ heap[last.ref].conversation_history = <<>>
  /\ \E b \in DirectoryRefs(agents) \ {last.ref} :
       heap[b].conversation_history # <<>>

\* C14 (get_agent), as claimed: get_agent(name) returns the agent registered
\* under name when name is a key, the agent registered under
\* current_agent_name when name is omitted, raises the not-found ValueError
\* for every name given that is not a key, and never changes the directory
\* or the current pointer.
C14_GetAgent ==
  last.op = "get_agent" =>
    /\ agents = last.before.agents
    /\ current_agent_name = last.before.current_agent_name
    /\ (last.agent_name # None /\ HasKey(agents, last.agent_name)) =>
         last.outcome = Returned(Lookup(agents, last.agent_name))
    /\ (last.agent_name = None /\ HasKey(agents, current_agent_name)) =>
         last.outcome = Returned(Lookup(agents, current_agent_name))
    /\ (last.agent_name # None /\ ~HasKey(agents, last.agent_name)) =>
         last.outcome.kind = "raise"

\* C15 (set_current_agent): for a name that is not a key it raises the
\* not-found ValueError and leaves current_agent_name as it was; for a key
\* it sets current_agent_name to the name, and get_agent() with no name then
\* returns the agent registered under it; in both cases the directory, every
\* agent's history and every agent's tool set are left as they were.
C15_SetCurrentAgent ==
  last.op = "set_current_agent" =>
    /\ agents = last.before.agents
    /\ heap = last.before.heap
    /\ IF HasKey(agents, last.agent_name)
         THEN /\ last.outcome = ReturnedNone
              /\ current_agent_name = last.agent_name
              /\ GetAgentResult(agents, current_agent_name, None)
                   = Returned(Lookup(agents, last.agent_name))
         ELSE /\ last.outcome = Raised(NotFoundError(last.agent_name))
              /\ current_agent_name = last.before.current_agent_name

\* The pointer moved from one agent to another that has tools and a
\* recorded turn.
C15_Witness ==
  /\ last.op = "set_current_agent"
  /\ last.outcome = ReturnedNone
  /\ current_agent_name # last.before.current_agent_name
  /\ heap[Lookup(agents, current_agent_name)].tools # <<>>
  /\ heap[Lookup(agents, current_agent_name)].conversation_history # <<>>

\* C16 (manager chat is delegation), as claimed: for a name that is a key,
\* or omitted, AgentManager.chat returns what chat(message) on the resolved
\* agent returns and changes what that chat changes; for every name given
\* that is not a key it raises the not-found error, invokes no model and
\* changes no history.
C16_ChatDelegation ==
  last.op = "manager.chat" =>
    LET before == last.before
        resolved == GetAgentResult(before.agents, before.current_agent_name, last.agent_name)
    IN /\ agents = before.agents
       /\ current_agent_name = before.current_agent_name
       /\ (last.agent_name # None /\ ~HasKey(before.agents, last.agent_name)) =>
            /\ last.outcome = Raised(NotFoundError(last.agent_name))
            /\ last.turn = Idle
            /\ heap = before.heap
       /\ (last.agent_name = None \/ HasKey(before.agents, last.agent_name)) =>
            IF resolved.kind = "raise"
              THEN last.outcome = resolved /\ heap = before.heap
              ELSE /\ last.ref = resolved.value
                   /\ last.turn \in AgentChatOutcomes(before.heap[last.ref])
                   /\ last.outcome = last.turn.outcome
                   /\ heap = HeapAfterChat(before.heap, last.ref, last.turn)

\* C17 (reload hazard): after reload_agents() every agent of the directory
\* is an instance constructed by the reload, distinct from every instance
\* that existed before and so from any reference obtained before, and its
\* conversation_history is empty; and a chat or a clear_history on a
\* reference that the directory no longer holds changes no agent of the
\* directory.
C17_ReloadHazard ==
  /\ last.op = "reload_agents" =>
       \A r \in DirectoryRefs(agents) :
          /\ r > Len(last.before.heap)
          /\ r # held
          /\ r \notin DirectoryRefs(last.before.agents)
          /\ heap[r].conversation_history = <<>>
  /\ (last.op \in {"agent.chat", "agent.clear_history"}
        /\ last.ref \notin DirectoryRefs(agents)) =>
       \A r \in DirectoryRefs(agents) : heap[r] = last.before.heap[r]

\* A chat on a stale reference recorded a turn; the directory's agent of the
\* same name, loaded again by a reload, still has an empty history.
C17_Witness ==
  /\ last.op = "agent.chat"
  /\ last.ref \notin DirectoryRefs(agents)
  /\ heap[last.ref].conversation_history # <<>>
  /\ \E r \in DirectoryRefs(agents) :
       /\ heap[r].name = heap[last.ref].name
       /\ heap[r].conversation_history = <<>>

\* C18 (load-time policy): with no agent configured a load constructs the
\* single agent "default"; a load in which no agent could be constructed
\* raises the fatal RuntimeError, and only such a load does; so an
\* AgentManager whose constructor returned holds at least one agent; and
\* list_agents returns one entry per agent of the directory, under its key.
C18_LoadTimePolicy ==
  /\ last.op \in {"AgentManager", "reload_agents"} =>
       /\ (agents_config = <<>> /\ last.outcome.kind = "return") =>
            Keys(agents) = <<"default">>
       /\ last.outcome = Raised(NoAgentsError) <=>
            \A i \in 1..Len(NamesToLoad(agents_config)) :
               NamesToLoad(agents_config)[i] \in last.failing
       /\ last.outcome.kind = "raise" <=> agents = <<>>
  /\ last.op = "AgentManager" =>
       /\ manager = "constructed" <=> last.outcome.kind = "return"
       /\ manager = "constructed" => Len(agents) >= 1
  /\ last.op = "list_agents" =>
       /\ Len(last.outcome.value) = Len(agents)
       /\ \A i \in 1..Len(agents) :
            /\ last.outcome.value[i].name = agents[i].name
            /\ last.outcome.value[i].info = GetInfo(heap[agents[i].ref])
       /\ \A i, j \in 1..Len(agents) : agents[i].name = agents[j].name => i = j

\* The constructor returned with no agent configured: the directory holds
\* the synthesized default agent.
C18_Witness ==
  /\ last.op = "AgentManager"
  /\ agents_config = <<>>
  /\ last.outcome.kind = "return"
  /\ Keys(agents) = <<"default">>
  /\ heap[Lookup(agents, "default")].use_rag

\* The flag that enables the tool of this name
FlagOf(tool_name, flags) ==
  CASE tool_name = "calculator" -> flags.enable_calculator
    [] tool_name = "rag_search" -> flags.enable_rag_search
    [] tool_name = "web_search" -> flags.enable_web_search
    [] tool_name = "send_email" -> flags.enable_email
    [] OTHER -> FALSE

HasTool(tls, tool_name) == \E t \in 1..Len(tls) : tls[t].name = tool_name

\* C19 (tool reconfiguration): after update_tools_individual(flags) the
\* tool set is built from the flags alone: every tool in it has its flag
\* set, no tool is in it twice, every tool whose flag is set is in it (the
\* document search when the agent hands a retriever over), whatever the
\* previous set was; use_tools is true exactly when some flag is true; with
\* every flag false the tool set is empty and the model is the plain one,
\* and a chat of an agent without tools invokes the model with no catalog.
C19_ToolReconfiguration ==
  /\ last.op = "update_tools_individual" =>
        /\ \A t \in 1..Len(tools) : FlagOf(tools[t].name, last.flags)
        /\ \A t, u \in 1..Len(tools) : tools[t].name = tools[u].name => t = u
        /\ \A n \in {"calculator", "web_search", "send_email"} :
             FlagOf(n, last.flags) => HasTool(tools, n)
        /\ (last.flags.enable_rag_search /\ use_rag /\ rag_retriever # None)
             => HasTool(tools, "rag_search")
        /\ use_tools <=> AnyToolsEnabled(last.flags)
        /\ ~AnyToolsEnabled(last.flags) => (tools = <<>> /\ llm_with_tools = <<>>)
        /\ llm_with_tools \in {tools, <<>>}
  /\ (ChatReturned /\ tools = <<>>) => llm_with_tools = <<>>

\* The calculator was active and is switched off while the web search is
\* switched on.
C19_Witness ==
  /\ last.op = "update_tools_individual"
  /\ HasTool(last.before, "calculator")
  /\ ~last.flags.enable_calculator
  /\ last.flags.enable_web_search
  /\ tools = <<WebSearchTool>>

\* The tool of that name registered last (the tool set has one).
LastRegistered(tls, tool_name) ==
  LET t == CHOOSE t \in 1..Len(tls) :
             /\ tls[t].name = tool_name
             /\ \A u \in (t + 1)..Len(tls) : tls[u].name # tool_name
  IN tls[t]

C26_ToolResultOrdering ==
  (ChatReturned /\ RequestedCalls # <<>>) =>
    LET c == Len(FirstContext)
        n == Len(RequestedCalls)
    IN /\ Len(last.messages) = c + 1 + n
       /\ SubSeq(last.messages, 1, c) = FirstContext
       /\ last.messages[c + 1] = last.replies[1].message
       /\ \A i \in 1..n :
            LET m == last.messages[c + 1 + i]
                name == RequestedCalls[i].name
            IN /\ m.type = "tool"
               /\ m.tool_call_id = RequestedCalls[i].id
               /\ \/ m.content = NotFoundText(name) /\ NotRegistered(name)
                  \/ m.content = ToolErrorText(name, ToolFailure)
                  \/ m.content = ToolOutput(tools[FindTool(tools, name)])
       /\ Len(last.invocations) = 2 => last.invocations[2] = last.messages

\* Two invocations were requested: the first of a tool that is not
\* registered, the second of the calculator, which ran.
C26_Witness ==
  /\ ChatReturned
  /\ Len(RequestedCalls) = 2
  /\ NotRegistered(RequestedCalls[1].name)
  /\ ~NotRegistered(RequestedCalls[2].name)
  /\ Len(last.executed) = 1
  /\ last.executed[1].id = RequestedCalls[2].id

\* C27 (history well-formedness): in every state reached by serialized chat
\* calls (failing or not, with or without tool calls), clear_history calls
\* and tool updates on one agent, conversation_history has even length and
\* its entries alternate user, assistant, user, assistant, ...; no entry has
\* the role system or tool.
C27_HistoryWellFormed ==
  /\ Len(conversation_history) % 2 = 0
  /\ \A i \in 1..Len(conversation_history) :
       conversation_history[i].role =
         (IF i % 2 = 1 THEN "user" ELSE "assistant")

\* A tool update on an agent that has recorded two turns, one of them with
\* a tool that ran.
C27_Witness ==
  /\ last.op = "update_tools_individual"
  /\ Len(conversation_history) = 4
  /\ \E i \in 1..4 : conversation_history[i].metadata.used_tools

\* C28 (current-pointer validity), as claimed: current_agent_name is a key
\* of agents when the constructor has returned, and a set_current_agent or
\* reload_agents call that returns normally from a directory whose pointer
\* is a key leaves it a key, so get_agent() with no name returns an agent.
C28_CurrentPointerValid ==
  LET valid == /\ HasKey(agents, current_agent_name)
               /\ GetAgentResult(agents, current_agent_name, None).kind = "return"
  IN /\ (last.op = "AgentManager" /\ last.outcome = ReturnedNone) => valid
     /\ ( /\ last.op \in {"set_current_agent", "reload_agents"}
          /\ last.outcome = ReturnedNone
          /\ HasKey(last.before.agents, last.before.current_agent_name) ) => valid

\* C29 (non-empty directory across reload), as claimed: in every state
\* after a successful construction, the state left by a reload_agents call
\* that raised included, the directory holds at least one agent.
C29_NonEmptyDirectory ==
  manager = "constructed" => Len(agents) >= 1

\* The call that returned reconfigured the tools of the current agent.
ToolsReconfigured ==
  last.op \in {"manager.update_tools", "manager.update_tools_individual"}

\* C30 (frame of tool reconfiguration): update_agent_tools and
\* update_agent_tools_individual leave the directory's keys, the current
\* pointer, every instance other than the current agent and, of the current
\* agent, everything but use_tools, tools and the model binding as they
\* were; every conversation_history is unchanged; and a call that raises
\* (no current agent) changes nothing.
C30_ToolReconfigurationFrame ==
  ToolsReconfigured =>
    /\ agents = last.before.agents
    /\ current_agent_name = last.before.current_agent_name
    /\ Len(heap) = Len(last.before.heap)
    /\ \A r \in 1..Len(heap) :
         /\ heap[r].conversation_history = last.before.heap[r].conversation_history
         /\ r # last.ref => heap[r] = last.before.heap[r]
    /\ last.ref # 0 =>
         /\ last.ref = Lookup(agents, current_agent_name)
         /\ heap[last.ref] =
              [last.before.heap[last.ref] EXCEPT
                 !.use_tools = heap[last.ref].use_tools,
                 !.tools = heap[last.ref].tools,
                 !.llm_with_tools = heap[last.ref].llm_with_tools]

\* The tools of the current agent were switched off while another agent of
\* the directory has tools and both have a recorded turn.
C30_Witness ==
  /\ last.op = "manager.update_tools_individual"
  /\ last.ref # 0
  /\ last.before.heap[last.ref].tools # <<>>
  /\ heap[last.ref].tools = <<>>
  /\ heap[last.ref].conversation_history # <<>>
  /\ \E b \in DirectoryRefs(agents) \ {last.ref} :
       /\ heap[b].tools # <<>>
       /\ heap[b].conversation_history # <<>>

----------------------------------------------------------------------------
(* LLMFactory.create_llm: the provider dispatch (src/src/llm/llm_factory.py) *)

\* The providers create_llm has a branch for
SupportedProviders == {"openai", "azure_openai", "anthropic", "cohere", "huggingface"}

\* The provider values of the llm section (None: the key is absent), of an
\* agent's llm_override and of override_params (None: absent, or without a
\* provider key)
GlobalProviders == {None, "openai", "gemini"}
OverrideProviders == {None, "anthropic", "OpenAI"}
ParamProviders == {None, "cohere", "mistral"}

\* llm_config.update(d): the provider of d, when it has one, replaces it
UpdateProvider(provider, d) == IF d = None THEN provider ELSE d

\* provider = llm_config.get('provider', 'openai') after both updates
ResolvedProvider(global, override, params) ==
  LET merged == UpdateProvider(UpdateProvider(global, override), params)
  IN IF merged = None THEN "openai" ELSE merged

UnsupportedError(provider) == <<"Unsupported LLM provider: ", provider>>

\* create_llm(agent_config, override_params): the model instance, named by
\* the branch that built it, or the ValueError of the else branch
CreateLLM(global, override, params) ==
  LET provider == ResolvedProvider(global, override, params)
  IN IF provider = "openai" THEN Returned("openai")
     ELSE IF provider = "azure_openai" THEN Returned("azure_openai")
     ELSE IF provider = "anthropic" THEN Returned("anthropic")
     ELSE IF provider = "cohere" THEN Returned("cohere")
     ELSE IF provider = "huggingface" THEN Returned("huggingface")
     ELSE Raised(UnsupportedError(provider))

\* The llm_override an agent is configured with (default_config has none)
OverrideOf(config, agent_name) ==
  IF config = <<>> THEN None ELSE llm_override[agent_name]

\* The agents whose construction raises: BaseAgent.__init__ calls
\* get_llm(agent_config = config), which calls create_llm
UnsupportedAgents(config) ==
  {NamesToLoad(config)[i] : i \in 1..Len(NamesToLoad(config))} \cap
    {n \in AgentNames :
       CreateLLM(llm_config.provider, OverrideOf(config, n), None).kind = "raise"}

InitProviders ==
  /\ system_prompt = Prompt
  /\ max_history = MaxHistory
  /\ use_rag = FALSE
  /\ rag_retriever = None
  /\ use_tools = FALSE
  /\ tools = <<>>
  /\ llm_with_tools = <<>>
  /\ conversation_history = <<>>
  /\ manager = "none"
  /\ agents_config \in AgentsConfigs
  /\ agents = <<>>
  /\ current_agent_name = "default"
  /\ heap = <<>>
  /\ held = 0
  /\ llm_config \in [provider : GlobalProviders]
  /\ llm_override \in [AgentNames -> OverrideProviders]
  /\ \A n \in AgentNames :
       (\A i \in 1..Len(agents_config) : agents_config[i] # n) => llm_override[n] = None
  /\ test_set = <<>>
  /\ NoRag
  /\ in_flight = <<>>
  /\ last = Idle

\* get_llm(agent_config, override_params) called on its own
GetLLM ==
  /\ last = Idle
  /\ \E agent_name \in AgentNames \cup {None}, params \in ParamProviders :
       LET override == IF agent_name = None THEN None ELSE llm_override[agent_name]
       IN last' = [op |-> "create_llm",
                   provider |-> ResolvedProvider(llm_config.provider, override, params),
                   outcome |-> CreateLLM(llm_config.provider, override, params)]
  /\ UNCHANGED <<configVars, toolVars, conversation_history, directoryVars>>

\* AgentManager() where the agents that cannot be constructed are those
\* whose provider create_llm rejects
NewAgentManagerWithProviders ==
  /\ last = Idle
  /\ manager = "none"
  /\ LET failing == UnsupportedAgents(agents_config)
         loaded == LoadAgents(agents_config, failing, <<>>, "default", heap)
     IN /\ agents' = loaded.agents
        /\ heap' = loaded.heap
        /\ current_agent_name' = loaded.current_agent_name
        /\ manager' = IF loaded.error = "" THEN "constructed" ELSE "failed"
        /\ last' = [op |-> "AgentManager", failing |-> failing,
                    before |-> Directory,
                    outcome |-> IF loaded.error = "" THEN ReturnedNone
                                ELSE Raised(loaded.error)]
  /\ UNCHANGED <<configVars, toolVars, conversation_history, agents_config, held>>

NextProviders ==
  \/ GetLLM
  \/ NewAgentManagerWithProviders
  \/ ManagerChat
  \/ Return

SpecProviders == InitProviders /\ [][NextProviders]_vars

\* C22 (unsupported provider is fatal at startup), as claimed: create_llm
\* raises for every resolved provider outside the five supported names, and
\* the construction of the AgentManager raises when the resolved provider
\* of one of its configured agents is unsupported.
C22_UnsupportedProviderFatal ==
  /\ (last.op = "create_llm" /\ last.provider \notin SupportedProviders) =>
       last.outcome = Raised(UnsupportedError(last.provider))
  /\ (last.op = "AgentManager" /\ last.failing # {}) =>
       /\ last.outcome.kind = "raise"
       /\ manager = "failed"

\* The first half of C22 on its own: create_llm returns a model exactly
\* for the five supported names.
CreateLLMDispatch ==
  last.op = "create_llm" =>
    IF last.provider \in SupportedProviders
      THEN last.outcome = Returned(last.provider)
      ELSE last.outcome = Raised(UnsupportedError(last.provider))

----------------------------------------------------------------------------
(* Evaluator.evaluate_test_set (src/evaluation/evaluator.py) *)

\* A test case (its question; expected_keywords only enters the metrics)
TestCases == {[question |-> Hello], [question |-> HowAreYou]}

TestSets == UNION {[1..n -> TestCases] : n \in 0..MaxCases}

\* What the try block of one test case meets: agent_manager.chat raises,
\* or it returns a response that evaluate_response scores; overall_score
\* is in hundredths
CaseOutcomes ==
  { Raised(NotFoundError("unknown")),
    [kind |-> "return", response |-> HiThere, overall_score |-> 100],
    [kind |-> "return", response |-> HiThere, overall_score |-> 50],
    [kind |-> "return", response |-> Empty, overall_score |-> 0] }

\* The entry appended for one test case, by the try block or its handler
TestEntry(test_case, outcome) ==
  IF outcome.kind = "raise"
    THEN [question |-> test_case.question, error |-> outcome.value,
          passed |-> FALSE]
    ELSE [question |-> test_case.question, response |-> outcome.response,
          metrics |-> [overall_score |-> outcome.overall_score],
          passed |-> outcome.overall_score >= 50]

\* Faulty variant: the first test case that raises ends the loop.
TestEntriesUntilError(cases, outcomes) ==
  LET raising == {i \in 1..Len(cases) : outcomes[i].kind = "raise"}
      n == IF raising = {} THEN Len(cases)
           ELSE (CHOOSE i \in raising : \A j \in raising : i <= j) - 1
  IN [i \in 1..n |-> TestEntry(cases[i], outcomes[i])]

\* results['tests'] after the loop over the test cases
TestEntries(cases, outcomes) ==
  [i \in 1..Len(cases) |-> TestEntry(cases[i], outcomes[i])]

\* sum(1 for t in tests if t.get('passed', False))
PassedCount(tests) == Cardinality({i \in 1..Len(tests) : tests[i].passed})

\* The quotient num / den of two ints, kept as the fraction
Quotient(num, den) == [num |-> num, den |-> den]

\* Two fractions that are the same number
SameNumber(p, q) == p.num * q.den = q.num * p.den

\* evaluate_test_set(test_set, agent_name): the report (without timestamp)
EvaluateTestSet(cases, agent_name, outcomes) ==
  LET tests == TestEntries(cases, outcomes)
      passed == PassedCount(tests)
  IN [agent |-> IF agent_name \in {None, ""} THEN current_agent_name ELSE agent_name,
      test_count |-> Len(cases),
      tests |-> tests,
      summary |-> [passed |-> passed,
                   failed |-> Len(cases) - passed,
                   pass_rate |-> IF cases # <<>> THEN Quotient(passed, Len(cases))
                                 ELSE Quotient(0, 1)]]

InitEvaluation ==
  /\ system_prompt = Prompt
  /\ max_history = MaxHistory
  /\ use_rag = FALSE
  /\ rag_retriever = None
  /\ use_tools = FALSE
  /\ tools = <<>>
  /\ llm_with_tools = <<>>
  /\ conversation_history = <<>>
  /\ manager = "none"
  /\ agents_config = <<>>
  /\ agents = <<>>
  /\ current_agent_name = "default"
  /\ heap = <<>>
  /\ held = 0
  /\ DefaultLLM
  /\ test_set \in TestSets
  /\ NoRag
  /\ in_flight = <<>>
  /\ last = Idle

\* Evaluator.evaluate_test_set(test_set, agent_name)
EvaluateTestSetCall ==
  /\ last = Idle
  /\ \E agent_name \in {None, "support"}, outcomes \in [1..Len(test_set) -> CaseOutcomes] :
       last' = [op |-> "evaluate_test_set", agent_name |-> agent_name,
                outcomes |-> outcomes,
                outcome |-> Returned(EvaluateTestSet(test_set, agent_name, outcomes))]
  /\ UNCHANGED <<configVars, toolVars, conversation_history, directoryVars>>

NextEvaluation ==
  \/ EvaluateTestSetCall
  \/ Return

SpecEvaluation == InitEvaluation /\ [][NextEvaluation]_vars

\* C23 (evaluation report consistency): the report of evaluate_test_set has
\* one tests entry per test case, in input order; test_count is the number
\* of test cases; summary.passed counts the entries with passed = true;
\* passed + failed = test_count; pass_rate is passed / test_count, and 0
\* for the empty test set; a test case whose chat call raised has an entry
\* with passed = false, and the cases after it have their entries.
C23_EvaluationReport ==
  last.op = "evaluate_test_set" =>
    LET report == last.outcome.value
        n == Len(test_set)
    IN /\ last.outcome.kind = "return"
       /\ Len(report.tests) = n
       /\ report.test_count = n
       /\ \A i \in 1..n :
            /\ report.tests[i].question = test_set[i].question
            /\ last.outcomes[i].kind = "raise" => ~report.tests[i].passed
            /\ last.outcomes[i].kind = "return" =>
                 /\ report.tests[i].response = last.outcomes[i].response
                 /\ report.tests[i].passed = (last.outcomes[i].overall_score >= 50)
       /\ report.summary.passed =
            Cardinality({i \in 1..Len(report.tests) : report.tests[i].passed})
       /\ report.summary.passed + report.summary.failed = report.test_count
       /\ report.summary.failed >= 0
       /\ IF n = 0
            THEN SameNumber(report.summary.pass_rate, Quotient(0, 1))
            ELSE SameNumber(report.summary.pass_rate,
                            Quotient(report.summary.passed, report.test_count))

\* A test set of three cases whose first chat call raised, whose second
\* passed and whose third scored below the threshold.
C23_Witness ==
  /\ last.op = "evaluate_test_set"
  /\ Len(test_set) = 3
  /\ last.outcomes[1].kind = "raise"
  /\ last.outcome.value.tests[2].passed
  /\ last.outcomes[3].kind = "return"
  /\ ~last.outcome.value.tests[3].passed
  /\ last.outcome.value.summary.passed = 1

----------------------------------------------------------------------------
(* RAGManager and the vector stores (src/src/rag) *)

\* The backends _create_vectorstore has a branch for
VectorDBs == {"chromadb", "faiss", "pinecone"}

\* The chunks the document loader produces
Chunks == {"chunk1", "chunk2"}

\* A store object: its class, whether its inner self.vectorstore is set
\* (open) and, for FAISS, the documents of the index held in memory
Store(type, open, docs) == [type |-> type, open |-> open, docs |-> docs]

\* _create_vectorstore(): ChromaDBStore opens (or creates) the persisted
\* collection; FAISSStore loads the index files when they exist;
\* PineconeStore connects to the index and leaves its vectorstore None
CreateVectorstore(db, backend) ==
  IF db = "chromadb" THEN Store("chromadb", TRUE, {})
  ELSE IF db = "faiss" THEN Store("faiss", backend # {}, backend)
  ELSE Store("pinecone", FALSE, {})

\* store.add_documents(chunks) for a non-empty list of chunks: the store
\* and the backend afterwards
AddDocuments(store, backend, chunks) ==
  IF store.type = "faiss"
    THEN LET docs == (IF store.open THEN store.docs ELSE {}) \cup chunks
         IN [vectorstore |-> Store("faiss", TRUE, docs), stored |-> docs]
    ELSE [vectorstore |-> Store(store.type, TRUE, {}),
          stored |-> backend \cup chunks]

\* The documents store.similarity_search can draw its results from
Searchable(store, backend) ==
  IF store.type = "chromadb" THEN (IF store.open THEN backend ELSE {})
  ELSE IF store.type = "faiss" THEN (IF store.open THEN store.docs ELSE {})
  ELSE IF store.type = "pinecone" THEN backend
  ELSE {}

\* The store after similarity_search or as_retriever: PineconeStore sets
\* its vectorstore from the existing index
AfterSearch(store) ==
  IF store.type = "pinecone" THEN Store("pinecone", TRUE, {}) ELSE store

\* store.get_stats()
StoreStats(store, backend) ==
  IF store.type = "pinecone"
    THEN [status |-> "active", document_count |-> Cardinality(backend)]
  ELSE IF ~store.open
    THEN [status |-> "not_initialized", document_count |-> 0]
  ELSE [status |-> "active",
        document_count |-> Cardinality(Searchable(store, backend))]

\* RAGManager.get_stats()
GetStats(on, store, backend) ==
  IF ~on THEN [enabled |-> FALSE]
  ELSE [enabled |-> TRUE, status |-> StoreStats(store, backend).status,
        document_count |-> StoreStats(store, backend).document_count]

\* Faulty variant: the store is deleted and re-created whatever the switch.
ClearVectorstoreUnguarded(on, store, backend, db) ==
  LET cleared == IF db \in {"chromadb", "faiss"} THEN {} ELSE backend
  IN [vectorstore |-> CreateVectorstore(db, cleared), stored |-> cleared]

\* RAGManager.clear_vectorstore(): delete_collection() for chromadb,
\* delete_store() for faiss, a warning for pinecone, then a new store
ClearVectorstore(on, store, backend, db) ==
  IF ~on \/ store = NoVectorstore
    THEN [vectorstore |-> store, stored |-> backend]
    ELSE LET cleared ==
               IF db = "chromadb" THEN (IF store.open THEN {} ELSE backend)
               ELSE IF db = "faiss" THEN {}
               ELSE backend
         IN [vectorstore |-> CreateVectorstore(db, cleared), stored |-> cleared]

\* The state after RAGManager(): an enabled manager starts on an empty
\* backend and fills it through initialize_documents; beside a disabled
\* one the backend may hold the documents of an earlier process
InitRag ==
  /\ system_prompt = Prompt
  /\ max_history = MaxHistory
  /\ use_rag = FALSE
  /\ rag_retriever = None
  /\ use_tools = FALSE
  /\ tools = <<>>
  /\ llm_with_tools = <<>>
  /\ conversation_history = <<>>
  /\ manager = "none"
  /\ agents_config = <<>>
  /\ agents = <<>>
  /\ current_agent_name = "default"
  /\ heap = <<>>
  /\ held = 0
  /\ DefaultLLM
  /\ test_set = <<>>
  /\ enabled \in BOOLEAN
  /\ vector_db \in VectorDBs
  /\ stored \in (IF enabled THEN {{}} ELSE SUBSET Chunks)
  /\ vectorstore = IF enabled THEN CreateVectorstore(vector_db, stored)
                   ELSE NoVectorstore
  /\ in_flight = <<>>
  /\ last = Idle

\* What the calls of the RAGManager leave alone
ragFrame ==
  <<agentConfigVars, llmVars, test_set, in_flight, enabled, vector_db,
    toolVars, conversation_history, directoryVars>>

\* A snapshot of the store and its backend, for the caller to compare with
Rag == [vectorstore |-> vectorstore, stored |-> stored]

\* RAGManager.initialize_documents(file_paths)
InitializeDocuments ==
  /\ last = Idle
  /\ \E chunks \in SUBSET Chunks :
       IF ~enabled \/ chunks = {}
         THEN /\ UNCHANGED <<vectorstore, stored>>
              /\ last' = [op |-> "initialize_documents", chunks |-> chunks,
                          before |-> Rag, outcome |-> Returned(0)]
         ELSE LET added == AddDocuments(vectorstore, stored, chunks)
              IN /\ vectorstore' = added.vectorstore
                 /\ stored' = added.stored
                 /\ last' = [op |-> "initialize_documents", chunks |-> chunks,
                             before |-> Rag,
                             outcome |-> Returned(Cardinality(chunks))]
  /\ UNCHANGED ragFrame

\* RAGManager.search(query): the documents found are some of those the
\* store can search
Search ==
  /\ last = Idle
  /\ IF ~enabled \/ vectorstore = NoVectorstore
       THEN /\ vectorstore' = vectorstore
            /\ last' = [op |-> "search", before |-> Rag, outcome |-> Returned({})]
       ELSE /\ vectorstore' = AfterSearch(vectorstore)
            /\ \E found \in SUBSET Searchable(vectorstore, stored) :
                 last' = [op |-> "search", before |-> Rag,
                          outcome |-> Returned(found)]
  /\ UNCHANGED <<ragFrame, stored>>

\* RAGManager.get_retriever()
GetRetriever ==
  /\ last = Idle
  /\ IF ~enabled \/ vectorstore = NoVectorstore
       THEN /\ vectorstore' = vectorstore
            /\ last' = [op |-> "get_retriever", before |-> Rag,
                        outcome |-> ReturnedNone]
       ELSE /\ vectorstore' = AfterSearch(vectorstore)
            /\ last' = [op |-> "get_retriever", before |-> Rag,
                        outcome |-> IF vectorstore.type = "pinecone" \/ vectorstore.open
                                      THEN Returned(Retriever) ELSE ReturnedNone]
  /\ UNCHANGED <<ragFrame, stored>>

\* RAGManager.get_stats()
GetStatsCall ==
  /\ last = Idle
  /\ last' = [op |-> "get_stats", before |-> Rag,
              outcome |-> Returned(GetStats(enabled, vectorstore, stored))]
  /\ UNCHANGED <<ragFrame, vectorstore, stored>>

\* RAGManager.clear_vectorstore()
ClearVectorstoreCall ==
  /\ last = Idle
  /\ LET cleared == ClearVectorstore(enabled, vectorstore, stored, vector_db)
     IN /\ vectorstore' = cleared.vectorstore
        /\ stored' = cleared.stored
        /\ last' = [op |-> "clear_vectorstore", before |-> Rag,
                    outcome |-> ReturnedNone]
  /\ UNCHANGED ragFrame

NextRag ==
  \/ InitializeDocuments
  \/ Search
  \/ GetRetriever
  \/ GetStatsCall
  \/ ClearVectorstoreCall
  \/ Return

SpecRag == InitRag /\ [][NextRag]_vars

\* The call that returned is one of the RAGManager's.
RagCalled ==
  last.op \in {"initialize_documents", "search", "get_retriever", "get_stats",
               "clear_vectorstore"}

\* C24 (disabled RAG is inert): while RAG is disabled the RAGManager has no
\* vector store, and every call leaves the backend as it was, never
\* creates a store, and returns the inert value: search the empty list,
\* initialize_documents 0, get_retriever None, get_stats a dictionary with
\* enabled = false, clear_vectorstore nothing.
C24_DisabledRagInert ==
  ~enabled =>
    /\ vectorstore = NoVectorstore
    /\ RagCalled =>
         /\ stored = last.before.stored
         /\ last.before.vectorstore = NoVectorstore
         /\ last.op = "search" => last.outcome = Returned({})
         /\ last.op = "initialize_documents" => last.outcome = Returned(0)
         /\ last.op = "get_retriever" => last.outcome = ReturnedNone
         /\ last.op = "get_stats" =>
              /\ last.outcome.kind = "return"
              /\ last.outcome.value.enabled = FALSE
         /\ last.op = "clear_vectorstore" => last.outcome = ReturnedNone

\* RAG is disabled, the chroma collection holds documents of an earlier
\* process, and clear_vectorstore has returned.
C24_Witness ==
  /\ ~enabled
  /\ vector_db = "chromadb"
  /\ stored = Chunks
  /\ last.op = "clear_vectorstore"

\* C25 (clear_vectorstore clears every backend), as claimed: when
\* clear_vectorstore has returned on an enabled RAGManager, for chromadb,
\* faiss and pinecone alike, the re-created store has no document to find
\* and reports a document count of 0.
C25_ClearVectorstore ==
  (enabled /\ last.op = "clear_vectorstore") =>
    /\ Searchable(vectorstore, stored) = {}
    /\ GetStats(enabled, vectorstore, stored).document_count = 0

----------------------------------------------------------------------------
(* Chat calls on two agents of one directory, interleaved: each call is
   split where the code reads or writes the agent and where it waits for
   the model; the calls on one agent are serialized. *)

\* chat is not started on an agent that has recorded this many turns
MaxConcurrentTurns == 2

\* The two agents that are called concurrently
ConcurrentNames == {"default", "support"}

TheOther(agent_name) == CHOOSE n \in ConcurrentNames : n # agent_name

\* What the model is seen to do: it fails, or it replies with a text or
\* with nothing (no tool calls)
ConcurrentReplies ==
  {LLMRaised(LLMFailure), LLMReturned(AIMessage(HiThere, <<>>)),
   LLMReturned(AIMessage(Empty, <<>>))}

\* No call is in progress on the agent.
NoCall == [pc |-> "idle"]

\* A call is in progress: it has not yet returned to its caller.
Running(call) == call.pc \in {"built", "replied"}

\* The first lines of chat: history_messages built from the agent's
\* history as it is now, and the user message appended
StartedCall(agent, message) ==
  [pc |-> "built", message |-> message,
   started |-> agent.conversation_history,
   context |-> BuildMessagesForHistory(agent.system_prompt,
                 agent.conversation_history, agent.max_history)
                 \o <<HumanMessage(message)>>]

\* The rest of chat after the model's reply: the turn is stored in the
\* agent's history as it is now, or the except clause is taken
InFlightTurn(agent, call) ==
  LET locals == Locals(<<call.context>>, <<call.first>>, call.context, <<>>, <<>>)
  IN IF call.first.error # ""
       THEN FailedTurn(call.message, agent.conversation_history,
                       call.first.error, locals)
       ELSE FinishTurn(call.message, agent.conversation_history,
                       call.first.message, locals)

\* Faulty variant: the history list is one object shared by all agents.
StoredInSharedHistory(hp, ref, turn) ==
  [i \in 1..Len(hp) |-> [hp[i] EXCEPT !.conversation_history = turn.history]]

\* The heap after the call has stored its turn in its own agent
StoredInAgent(hp, ref, turn) ==
  [hp EXCEPT ![ref].conversation_history = turn.history]

\* The directory after AgentManager(), with both agents constructed
InitConcurrent ==
  /\ system_prompt = Prompt
  /\ max_history = MaxHistory
  /\ use_rag = FALSE
  /\ rag_retriever = None
  /\ use_tools = FALSE
  /\ tools = <<>>
  /\ llm_with_tools = <<>>
  /\ conversation_history = <<>>
  /\ manager = "constructed"
  /\ agents_config = <<"default", "support">>
  /\ LET loaded == LoadAgents(agents_config, {}, <<>>, "default", <<>>)
     IN /\ agents = loaded.agents
        /\ heap = loaded.heap
        /\ current_agent_name = loaded.current_agent_name
  /\ held = 0
  /\ DefaultLLM
  /\ test_set = <<>>
  /\ NoRag
  /\ in_flight = [n \in ConcurrentNames |-> NoCall]
  /\ last = Idle

concurrentFrame ==
  <<agentConfigVars, llmVars, test_set, ragVars, toolVars,
    conversation_history, manager, agents_config, agents,
    current_agent_name, held, last>>

\* manager.chat(message, agent_name) begins: get_agent(agent_name), then
\* agent.chat builds its context
ChatStart ==
  /\ \E agent_name \in ConcurrentNames, message \in DirectoryUserMessages :
       LET result == GetAgentResult(agents, current_agent_name, agent_name)
       IN /\ in_flight[agent_name] = NoCall
          /\ result.kind = "return"
          /\ Len(heap[result.value].conversation_history) < 2 * MaxConcurrentTurns
          /\ in_flight' = [in_flight EXCEPT ![agent_name] =
                             StartedCall(heap[result.value], message)]
  /\ UNCHANGED <<concurrentFrame, heap>>

\* self.llm_with_tools.invoke(history_messages) comes back
ChatInvoke ==
  /\ \E agent_name \in ConcurrentNames, first \in ConcurrentReplies :
       /\ in_flight[agent_name].pc = "built"
       /\ in_flight' = [in_flight EXCEPT ![agent_name] =
            [pc |-> "replied", message |-> @.message, started |-> @.started,
             context |-> @.context, first |-> first]]
  /\ UNCHANGED <<concurrentFrame, heap>>

\* The call stores its turn and returns its response; overlapped tells
\* whether the call on the other agent is in progress at that moment
ChatFinish ==
  /\ \E agent_name \in ConcurrentNames :
       LET ref == Lookup(agents, agent_name)
           call == in_flight[agent_name]
           turn == InFlightTurn(heap[ref], call)
       IN /\ call.pc = "replied"
          /\ heap' = StoredInAgent(heap, ref, turn)
          /\ in_flight' = [in_flight EXCEPT ![agent_name] =
               [pc |-> "returned", message |-> call.message,
                started |-> call.started, context |-> call.context,
                first |-> call.first, outcome |-> turn.outcome,
                overlapped |-> Running(in_flight[TheOther(agent_name)])]]
  /\ UNCHANGED concurrentFrame

\* The caller takes the response; the next call on the agent may start.
ChatReturn ==
  /\ \E agent_name \in ConcurrentNames :
       /\ in_flight[agent_name].pc = "returned"
       /\ in_flight' = [in_flight EXCEPT ![agent_name] = NoCall]
  /\ UNCHANGED <<concurrentFrame, heap>>

NextConcurrent ==
  \/ ChatStart
  \/ ChatInvoke
  \/ ChatFinish
  \/ ChatReturn

SpecConcurrent == InitConcurrent /\ [][NextConcurrent]_vars

\* chat(message) run alone on the agent as the call found it, with the
\* same reply of the model
RunAlone(agent, call) ==
  ChatTurn(agent.system_prompt, agent.max_history, agent.tools, call.started,
           call.message, call.first, <<>>, call.first)

\* C21 (independence of agents under concurrency): however the chat calls
\* on two agents of one directory are interleaved, a call in progress finds
\* its agent's history as it was when the call began; a call that has
\* returned has returned the response, and left the history, that the same
\* call run alone would have; and nothing else of the two agents changes.
C21_AgentsIndependent ==
  \A n \in ConcurrentNames :
    LET call == in_flight[n]
        agent == heap[Lookup(agents, n)]
    IN /\ [agent EXCEPT !.conversation_history = <<>>]
            = NewAgent(n, ConfiguredAgent(n), None)
       /\ Running(call) => agent.conversation_history = call.started
       /\ call.pc = "returned" =>
            /\ call.outcome = RunAlone(agent, call).outcome
            /\ agent.conversation_history = RunAlone(agent, call).history

\* The call on default stored its second turn and returned while a call on
\* support, which has a recorded turn, was waiting for the model.
C21_Witness ==
  /\ in_flight["default"].pc = "returned"
  /\ in_flight["default"].overlapped
  /\ in_flight["default"].first.error = ""
  /\ Len(heap[Lookup(agents, "default")].conversation_history) = 4
  /\ Running(in_flight["support"])
  /\ Len(heap[Lookup(agents, "support")].conversation_history) = 2

====
